---- MODULE Spec2Model ----
(***************************************************************************)
(* go-conductor: the routing / fan-out / selection engine of               *)
(* internal/proxy/conductor.go, and the metrics collector of               *)
(* internal/proxy/metrics.go and conductor_metrics.go.                     *)
(*                                                                         *)
(* Go strings are sequences of one-character strings (a path "/a/b" is     *)
(* <<"/","a","/","b">>), so that HasPrefix, TrimPrefix and concatenation   *)
(* are computed and not assumed.  A *Service pointer is the index of the   *)
(* service in Conductor.services.  A Go map is a function; the order in    *)
(* which `range` visits its keys is chosen nondeterministically.           *)
(***************************************************************************)
EXTENDS Integers, Sequences, FiniteSets, TLC

(***************************************************************************)
(* Bounds                                                                  *)
(***************************************************************************)
\* largest service group of the generated configurations of Spec
MaxServices == 2
\* largest configuration of RouteSpec (route matching on its own)
MaxRouteServices == 3
\* goroutines that call into the metrics collector (MetricsSpec)
MaxCallers == 2
\* RecordRequest calls made on one collector (MetricsSpec)
MaxCalls == 3
\* services in a configuration file (LoadSpec)
MaxLoadServices == 5

(***************************************************************************)
(* strings                                                                 *)
(***************************************************************************)
EmptyStr == <<>>

HasPrefix(s, p) == Len(p) <= Len(s) /\ SubSeq(s, 1, Len(p)) = p

HasSuffix(s, p) == Len(p) <= Len(s) /\ SubSeq(s, Len(s) - Len(p) + 1, Len(s)) = p

TrimPrefix(s, p) == IF HasPrefix(s, p) THEN SubSeq(s, Len(p) + 1, Len(s)) ELSE s

Slash == <<"/">>

\* the strings used as patterns and paths
P_a == <<"/", "a">>
P_ab == <<"/", "a", "/", "b">>
P_abc == <<"/", "a", "/", "b", "/", "c">>
P_ax == <<"/", "a", "x">>
P_c == <<"/", "c">>
P_exact == <<"/", "e", "x", "a", "c", "t">>
P_prefix == <<"/", "p", "r", "e", "f", "i", "x">>
P_prefix_x == <<"/", "p", "r", "e", "f", "i", "x", "/", "x">>
P_path == <<"/", "p", "a", "t", "h">>
P_path_y == <<"/", "p", "a", "t", "h", "/", "y">>
P_nomatch == <<"/", "n", "o", "m", "a", "t", "c", "h">>

(***************************************************************************)
(* configuration (config.Service) and proxy.Service                        *)
(***************************************************************************)
\* url.URL of a service: String() is Scheme + "://" + Host + Path
MkURL(host, basePath) == [Scheme |-> "http", Host |-> host, Path |-> basePath]

URLString(u) == <<u.Scheme, "://", u.Host>> \o u.Path

MkService(name, host, exact, prefix, path, primary) ==
    [Name |-> name, URL |-> MkURL(host, EmptyStr), Path |-> path,
     PathPrefix |-> prefix, PathExact |-> exact, Primary |-> primary,
     Headers |-> [k \in {"X-Proxy-Service"} |-> name]]

\* no file has been loaded: the configuration is built in the program
NoConfig == [pc |-> "none", Parsed |-> <<>>, Services |-> <<>>]

\* faulty variant: the first service is made primary whether or not another
\* one is marked
configLoad_AlwaysFirst(svcs) ==
    IF Len(svcs) > 0 THEN [svcs EXCEPT ![1].Primary = TRUE] ELSE svcs

\* config.Load, lines 68-80: the services after the defaulting of the primary
configLoad(svcs) ==
    LET primaryFound == \E i \in 1..Len(svcs) : svcs[i].Primary IN
    IF ~primaryFound /\ Len(svcs) > 0
    THEN [svcs EXCEPT ![1].Primary = TRUE]
    ELSE svcs

\* the configuration of the repository's tests
TestConfig ==
    << MkService("primary-service", "primary.example.com", P_exact, EmptyStr, EmptyStr, TRUE),
       MkService("prefix-service", "prefix.example.com", EmptyStr, P_prefix, EmptyStr, FALSE),
       MkService("path-service", "path.example.com", EmptyStr, EmptyStr, P_path, FALSE) >>

HostOf(i) == IF i = 1 THEN "h1" ELSE IF i = 2 THEN "h2" ELSE IF i = 3 THEN "h3" ELSE "h4"

NameOf(i) == IF i = 1 THEN "s1" ELSE IF i = 2 THEN "s2" ELSE IF i = 3 THEN "s3" ELSE "s4"

\* one group of n services under the prefix /a, the first k of them primary
\* (results arrive in any order, so which members are the primaries does
\* not matter to the selection, only how many there are)
GroupConfig(n, k) ==
    [i \in 1..n |-> MkService(NameOf(i), HostOf(i), EmptyStr, P_a, EmptyStr, i <= k)]

Configs == {TestConfig} \cup UNION {{GroupConfig(n, k) : k \in 0..n} : n \in 1..MaxServices}

Paths == {P_ab, P_c, P_exact, P_prefix_x, P_path_y, P_nomatch}

\* RouteSpec: every configuration of up to MaxRouteServices services, each
\* with any combination of the three matchers set (patterns are nested, so
\* that several of them qualify for one path)
RouteChoices ==
    [PathExact : {EmptyStr, P_ab}, PathPrefix : {EmptyStr, P_a, P_ab},
     Path : {EmptyStr, Slash, P_a}]

RouteConfig(c) ==
    [i \in DOMAIN c |->
        MkService(NameOf(i), HostOf(i), c[i].PathExact, c[i].PathPrefix, c[i].Path, i = 1)]

RoutePaths == {P_a, P_ab, P_abc, P_ax, P_c, Slash}

(***************************************************************************)
(* route table                                                             *)
(***************************************************************************)
EmptyMap == [k \in {} |-> <<>>]

\* m[key] = append(m[key], i)
MapAppend(m, key, i) ==
    IF key \in DOMAIN m THEN [m EXCEPT ![key] = Append(@, i)]
    ELSE [k \in DOMAIN m \cup {key} |-> IF k = key THEN <<i>> ELSE m[k]]

\* faulty variant: a service is registered under every matcher it has
RECURSIVE initializeServices_EveryMatcher(_, _, _)
initializeServices_EveryMatcher(cfg, i, rt) ==
    IF i > Len(cfg) THEN rt
    ELSE LET svcConfig == cfg[i]
             e == IF svcConfig.PathExact # EmptyStr
                  THEN [rt EXCEPT !.routesByExact = MapAppend(@, svcConfig.PathExact, i)]
                  ELSE rt
             p == IF svcConfig.PathPrefix # EmptyStr
                  THEN [e EXCEPT !.routesByPrefix = MapAppend(@, svcConfig.PathPrefix, i)]
                  ELSE e
             q == IF svcConfig.Path # EmptyStr
                  THEN [p EXCEPT !.routesByPath = MapAppend(@, svcConfig.Path, i)]
                  ELSE p
         IN  initializeServices_EveryMatcher(cfg, i + 1, q)

\* initializeServices: each service is appended to the list of its pattern
\* in the index of its first non-empty matcher
RECURSIVE initializeServices(_, _, _)
initializeServices(cfg, i, rt) ==
    IF i > Len(cfg) THEN rt
    ELSE LET svcConfig == cfg[i] IN
         initializeServices(cfg, i + 1,
            IF svcConfig.PathExact # EmptyStr
            THEN [rt EXCEPT !.routesByExact = MapAppend(@, svcConfig.PathExact, i)]
            ELSE IF svcConfig.PathPrefix # EmptyStr
            THEN [rt EXCEPT !.routesByPrefix = MapAppend(@, svcConfig.PathPrefix, i)]
            ELSE IF svcConfig.Path # EmptyStr
            THEN [rt EXCEPT !.routesByPath = MapAppend(@, svcConfig.Path, i)]
            ELSE rt)

NewConductor(cfg) ==
    initializeServices(cfg, 1,
        [routesByExact |-> EmptyMap, routesByPrefix |-> EmptyMap, routesByPath |-> EmptyMap])

\* the orders in which `range` may visit the keys of a map
RangeOrders(keys) ==
    {o \in [1..Cardinality(keys) -> keys] : \A i, j \in DOMAIN o : i # j => o[i] # o[j]}

\* faulty variant: the length comparison is missing, the last qualifying prefix wins
RECURSIVE prefixLoop_LastWins(_, _, _, _, _)
prefixLoop_LastWins(rbp, path, order, bestPrefix, matches) ==
    IF order = <<>> THEN matches
    ELSE LET prefix == Head(order) IN
         IF HasPrefix(path, prefix)
         THEN prefixLoop_LastWins(rbp, path, Tail(order), prefix, rbp[prefix])
         ELSE prefixLoop_LastWins(rbp, path, Tail(order), bestPrefix, matches)

\* the prefix loop: longest qualifying prefix seen so far wins
RECURSIVE prefixLoop(_, _, _, _, _)
prefixLoop(rbp, path, order, bestPrefix, matches) ==
    IF order = <<>> THEN matches
    ELSE LET prefix == Head(order) IN
         IF HasPrefix(path, prefix) /\ Len(prefix) > Len(bestPrefix)
         THEN prefixLoop(rbp, path, Tail(order), prefix, rbp[prefix])
         ELSE prefixLoop(rbp, path, Tail(order), bestPrefix, matches)

\* faulty variant: a qualifying group replaces the matches instead of being appended
RECURSIVE pathLoop_Overwrite(_, _, _, _)
pathLoop_Overwrite(rbq, path, order, matches) ==
    IF order = <<>> THEN matches
    ELSE LET basePath == Head(order) IN
         IF HasPrefix(path, basePath)
         THEN pathLoop_Overwrite(rbq, path, Tail(order), rbq[basePath])
         ELSE pathLoop_Overwrite(rbq, path, Tail(order), matches)

\* the fallback loop: every qualifying group is appended
RECURSIVE pathLoop(_, _, _, _)
pathLoop(rbq, path, order, matches) ==
    IF order = <<>> THEN matches
    ELSE LET basePath == Head(order) IN
         IF HasPrefix(path, basePath)
         THEN pathLoop(rbq, path, Tail(order), matches \o rbq[basePath])
         ELSE pathLoop(rbq, path, Tail(order), matches)

\* faulty variant: the exact index is consulted only after the prefix loop
findWithOrders_PrefixFirst(rt, path, prefixOrder, pathOrder) ==
    LET matches == prefixLoop(rt.routesByPrefix, path, prefixOrder, EmptyStr, <<>>) IN
    IF Len(matches) > 0 THEN matches
    ELSE IF path \in DOMAIN rt.routesByExact THEN rt.routesByExact[path]
    ELSE pathLoop(rt.routesByPath, path, pathOrder, matches)

\* findMatchingServices for given iteration orders of the two maps
findWithOrders(rt, path, prefixOrder, pathOrder) ==
    IF path \in DOMAIN rt.routesByExact THEN rt.routesByExact[path]
    ELSE LET matches == prefixLoop(rt.routesByPrefix, path, prefixOrder, EmptyStr, <<>>) IN
         IF Len(matches) > 0 THEN matches
         ELSE pathLoop(rt.routesByPath, path, pathOrder, matches)

\* the results findMatchingServices can return
findMatchingServices(rt, path) ==
    {findWithOrders(rt, path, po, qo) :
        po \in RangeOrders(DOMAIN rt.routesByPrefix),
        qo \in RangeOrders(DOMAIN rt.routesByPath)}

(***************************************************************************)
(* target URL                                                              *)
(***************************************************************************)
\* faulty variant: the prefix is never stripped
createTargetURL_NoStrip(svc, reqPath, rawQuery) ==
    LET base == <<svc.URL.Scheme, "://", svc.URL.Host>>
        targetURL == IF HasPrefix(reqPath, Slash) THEN base \o reqPath
                     ELSE IF reqPath # EmptyStr THEN base \o Slash \o reqPath
                     ELSE URLString(svc.URL)
    IN  IF rawQuery # EmptyStr THEN targetURL \o <<"?">> \o rawQuery ELSE targetURL

\* faulty variant: the path is appended to the base URL, base path included
createTargetURL_KeepBasePath(svc, reqPath, rawQuery) ==
    LET stripped == TrimPrefix(reqPath, svc.PathPrefix)
        path == IF svc.PathPrefix # EmptyStr /\ HasPrefix(reqPath, svc.PathPrefix)
                THEN IF ~HasPrefix(stripped, Slash) THEN Slash \o stripped ELSE stripped
                ELSE reqPath
        targetURL == IF path # EmptyStr /\ ~HasPrefix(path, Slash)
                     THEN URLString(svc.URL) \o Slash \o path
                     ELSE URLString(svc.URL) \o path
    IN  IF rawQuery # EmptyStr THEN targetURL \o <<"?">> \o rawQuery ELSE targetURL

createTargetURL(svc, reqPath, rawQuery) ==
    LET targetURL0 == URLString(svc.URL)
        stripped == TrimPrefix(reqPath, svc.PathPrefix)
        path == IF svc.PathPrefix # EmptyStr /\ HasPrefix(reqPath, svc.PathPrefix)
                THEN IF ~HasPrefix(stripped, Slash) THEN Slash \o stripped ELSE stripped
                ELSE reqPath
        targetURL1 == IF ~HasSuffix(targetURL0, Slash) /\ path # EmptyStr /\ ~HasPrefix(path, Slash)
                      THEN targetURL0 \o Slash ELSE targetURL0
        targetURL2 == IF HasPrefix(path, Slash)
                      THEN <<svc.URL.Scheme, "://", svc.URL.Host>> \o path
                      ELSE IF path # EmptyStr
                      THEN <<svc.URL.Scheme, "://", svc.URL.Host>> \o Slash \o path
                      ELSE targetURL1
    IN  IF rawQuery # EmptyStr THEN targetURL2 \o <<"?">> \o rawQuery ELSE targetURL2

(***************************************************************************)
(* headers, results, response writer                                       *)
(***************************************************************************)
\* http.Header.Add of every value of every name of src, onto h
AddAll(h, src) ==
    [k \in DOMAIN h \cup DOMAIN src |->
        (IF k \in DOMAIN h THEN h[k] ELSE <<>>) \o (IF k \in DOMAIN src THEN src[k] ELSE <<>>)]

\* http.Header.Set of every configured header of the service, onto h
SetAll(h, hdrs) ==
    [k \in DOMAIN h \cup DOMAIN hdrs |-> IF k \in DOMAIN hdrs THEN <<hdrs[k]>> ELSE h[k]]

\* faulty variant: the configured headers are added (Header.Add), not set
copyAndAugmentHeaders_AddCustom(origHeader, svc) ==
    AddAll(AddAll(EmptyMap, origHeader), [k \in DOMAIN svc.Headers |-> <<svc.Headers[k]>>])

copyAndAugmentHeaders(origHeader, svc) == SetAll(AddAll(EmptyMap, origHeader), svc.Headers)

NoResp == [StatusCode |-> 0, Header |-> EmptyMap]

\* a nil *serviceResult
NilResult == [service |-> 0, hasResp |-> FALSE, resp |-> NoResp, body |-> <<>>, err |-> "nil"]

\* what client.Do and the body read of one outbound request come to:
\*   "transport": client.Do returns an error (no response)
\*   "context":   client.Do returns the error of the done context
\*   "read":      a response arrives, io.ReadAll of its body fails
\*   "response":  a response with the given status arrives and its body is read
Statuses == {200, 502}

Reply(kind, status) == [kind |-> kind, status |-> status]

BackendReplies ==
    {Reply("transport", 0), Reply("read", 200)} \cup {Reply("response", st) : st \in Statuses}

ContextReply == Reply("context", 0)

BackendHeader(svc) == [k \in {"X-From"} |-> <<svc.Name, "v2">>]

BackendBody(svc) == <<"body of", svc.Name>>

\* faulty variant: a response with a status of 400 or more is made an error
sendRequest_StatusIsError(i, svc, reply) ==
    IF reply.kind \in {"transport", "context"}
    THEN [service |-> i, hasResp |-> FALSE, resp |-> NoResp, body |-> <<>>, err |-> reply.kind]
    ELSE IF reply.kind = "read" \/ reply.status >= 400
    THEN [service |-> i, hasResp |-> TRUE,
          resp |-> [StatusCode |-> reply.status, Header |-> BackendHeader(svc)],
          body |-> <<>>, err |-> IF reply.kind = "read" THEN "read" ELSE "status"]
    ELSE [service |-> i, hasResp |-> TRUE,
          resp |-> [StatusCode |-> reply.status, Header |-> BackendHeader(svc)],
          body |-> BackendBody(svc), err |-> "nil"]

\* sendRequest: the serviceResult for what client.Do and io.ReadAll return
sendRequest(i, svc, reply) ==
    IF reply.kind \in {"transport", "context"}
    THEN [service |-> i, hasResp |-> FALSE, resp |-> NoResp, body |-> <<>>, err |-> reply.kind]
    ELSE IF reply.kind = "read"
    THEN [service |-> i, hasResp |-> TRUE,
          resp |-> [StatusCode |-> reply.status, Header |-> BackendHeader(svc)],
          body |-> <<>>, err |-> reply.kind]
    ELSE [service |-> i, hasResp |-> TRUE,
          resp |-> [StatusCode |-> reply.status, Header |-> BackendHeader(svc)],
          body |-> BackendBody(svc), err |-> "nil"]

\* the outbound request makeServiceRequest builds
NoRequest == [URL |-> <<>>, Header |-> EmptyMap, Body |-> <<>>]

outboundRequest(svc, req, requestBody) ==
    [URL |-> createTargetURL(svc, req.Path, req.RawQuery),
     Header |-> copyAndAugmentHeaders(req.Header, svc),
     Body |-> requestBody]

\* the path of an outbound URL, as url.Parse splits the target string
RECURSIVE UpToQuery(_)
UpToQuery(s) ==
    IF s = <<>> \/ Head(s) = "?" THEN <<>> ELSE <<Head(s)>> \o UpToQuery(Tail(s))

OutboundPath(url) == UpToQuery(SubSeq(url, 4, Len(url)))

NewWriter == [Header |-> EmptyMap, Code |-> 0, Body |-> <<>>, calls |-> <<>>]

NoServiceMsg == "No service found for request"
BodyReadMsg == "Failed to read request body"
AllFailedMsg == "All services failed"

\* http.Error: plain-text headers, the status, the message as one line
httpError(rw, msg, code) ==
    [Header |-> SetAll(rw.Header, [k \in {"Content-Type", "X-Content-Type-Options"} |->
                    IF k = "Content-Type" THEN "text/plain; charset=utf-8" ELSE "nosniff"]),
     Code |-> code,
     Body |-> rw.Body \o <<msg, "\n">>,
     calls |-> rw.calls \o <<"http.Error">>]

\* the http.ResponseWriter as writeResponse uses it.  Code = 0: the header
\* has not been written.  Header is what the response carries: an addition
\* made after the header was written is not sent.
\* the loop of w.Header().Add(k, v) over every value of every name
HeaderAdd(rw, hdr) ==
    [rw EXCEPT !.Header = IF rw.Code = 0 THEN AddAll(rw.Header, hdr) ELSE rw.Header,
               !.calls = rw.calls \o <<"Header.Add">>]

\* w.WriteHeader(code): a second call changes nothing
WriteHeader(rw, code) ==
    [rw EXCEPT !.Code = IF rw.Code = 0 THEN code ELSE rw.Code,
               !.calls = rw.calls \o <<"WriteHeader">>]

\* w.Write(b): writes the header with 200 first if it has not been written
Write(rw, b) ==
    [rw EXCEPT !.Code = IF rw.Code = 0 THEN 200 ELSE rw.Code,
               !.Body = rw.Body \o b,
               !.calls = rw.calls \o <<"Write">>]

\* faulty variant: the status is written before the headers are copied
writeResponse_StatusFirst(rw, result) ==
    LET status == WriteHeader(rw, result.resp.StatusCode)
        copied == HeaderAdd(status, result.resp.Header)
    IN  IF result.body # <<>> THEN Write(copied, result.body) ELSE copied

\* writeResponse: headers added, then the status, then the body unless it
\* is nil (<<>>; the body io.ReadAll returned for a success is never nil)
writeResponse(rw, result) ==
    LET copied == HeaderAdd(rw, result.resp.Header)
        status == WriteHeader(copied, result.resp.StatusCode)
    IN  IF result.body # <<>> THEN Write(status, result.body) ELSE status

(***************************************************************************)
(* metrics collector (metrics.go)                                          *)
(***************************************************************************)
\* time.Millisecond, in nanoseconds (a time.Duration is a count of them)
Millisecond == 1000000

\* the durations recorded
Durations == {100 * Millisecond, 200 * Millisecond}

\* Go's integer division: the quotient is truncated toward zero
GoDiv(a, b) == IF a >= 0 THEN a \div b ELSE -((-a) \div b)

\* the counters of a new collector (lastRequest, a wall-clock time, is left out)
NewMetricsCollector == [requestCount |-> 0, errorCount |-> 0, requestDuration |-> 0]

GetRequestCount(m) == m.requestCount

GetErrorCount(m) == m.errorCount

\* faulty variant: the cumulative duration is returned undivided
GetAverageRequestDuration_Total(m) ==
    IF m.requestCount = 0 THEN 0 ELSE m.requestDuration

GetAverageRequestDuration(m) ==
    IF m.requestCount = 0 THEN 0 ELSE GoDiv(m.requestDuration, m.requestCount)

Getters == {"GetRequestCount", "GetErrorCount", "GetAverageRequestDuration"}

\* what the named getter returns for collector m
Getter(op, m) ==
    IF op = "GetRequestCount" THEN GetRequestCount(m)
    ELSE IF op = "GetErrorCount" THEN GetErrorCount(m)
    ELSE GetAverageRequestDuration(m)

Callers == 1..MaxCallers

NoArgs == [duration |-> 0, isError |-> FALSE]

NoneMade == [calls |-> 0, errors |-> 0, total |-> 0]

\* the locals of a findMatchingServices call that has not begun
NoLookup == [pc |-> "idle", path |-> EmptyStr, todo |-> <<>>, bestPrefix |-> EmptyStr,
             matches |-> <<>>]

NothingGot == [op |-> "none", value |-> 0, at |-> NoneMade]

\* float64(a) / float64(b), kept as the fraction
Ratio(a, b) == [num |-> a, den |-> b]

\* the zero value of MetricsData (the times are left out)
NoData == [request_count |-> 0, error_count |-> 0, success_count |-> 0,
           error_rate |-> Ratio(0, 1), avg_request_time_ms |-> Ratio(0, Millisecond)]

\* MetricsHandler's successCount, errorRate, avgDurationMs and data
MetricsData(reqCount, errCount, avgDuration) ==
    [request_count |-> reqCount,
     error_count |-> errCount,
     success_count |-> reqCount - errCount,
     error_rate |-> IF reqCount > 0 THEN Ratio(errCount, reqCount) ELSE Ratio(0, 1),
     avg_request_time_ms |-> Ratio(avgDuration, Millisecond)]

\* a MetricsHandler call that has not begun
NoScrape == [pc |-> "idle", reqCount |-> 0, errCount |-> 0, avgDuration |-> 0,
             status |-> 0, data |-> NoData]

(***************************************************************************)
(* state                                                                   *)
(***************************************************************************)
VARIABLES
    config,          \* config.Load: where it is, the services parsed and as they are now
    services,        \* Conductor.services (the configuration)
    routesByExact,   \* Conductor.routesByExact
    routesByPrefix,  \* Conductor.routesByPrefix
    routesByPath,    \* Conductor.routesByPath
    pc,              \* where ServeHTTP is: idle, readBody, fanOut, recv, select, done
    r,               \* the inbound request
    matches,         \* ServeHTTP's local `services`
    ctx,             \* the request context: none, active, expired, canceled
    requestBody,     \* the buffered inbound body
    resultChan,      \* buffered results not yet received
    arrived,         \* every result sent on resultChan so far, in send order
    chanClosed,      \* close(resultChan) has run
    wg,              \* the WaitGroup counter
    tpc,             \* per task: call, send, done, exit, panic
    result,          \* per task: the result makeServiceRequest returned
    outReq,          \* per task: the outbound request it built
    closer,          \* the closing goroutine: none, wait, exit
    primaryResult,   \* processResults local
    anyResult,       \* processResults local
    resultToUse,     \* what processResults returned
    w,               \* the http.ResponseWriter of the request
    lk,              \* per caller of findMatchingServices: its position and locals
    metrics,         \* Conductor.metrics: <<>> is nil, <<m>> points to collector m
    mu,              \* MetricsCollector.mu: 0 unlocked, g locked by caller g
    mpc,             \* per caller: where it is in RecordRequest
    margs,           \* per caller: the arguments of its RecordRequest call
    mreg,            \* per caller: the value it loaded for an update
    made,            \* history: the RecordRequest calls that have returned
    skipped,         \* history: a RecordMetrics call has returned at the nil check
    got,             \* the last value a getter returned, and `made` at that moment
    mh               \* the MetricsHandler call: where it is, its locals, its response

metricsVars == <<metrics, mu, mpc, margs, mreg, made, skipped, got, mh>>

handlerVars == <<config, services, routesByExact, routesByPrefix, routesByPath, pc, r, matches, ctx,
                 requestBody, resultChan, arrived, chanClosed, wg, tpc, result, outReq, closer,
                 primaryResult, anyResult, resultToUse, w, lk>>

vars == <<handlerVars, metricsVars>>

routeVars == <<config, services, routesByExact, routesByPrefix, routesByPath>>

RT == [routesByExact |-> routesByExact, routesByPrefix |-> routesByPrefix,
       routesByPath |-> routesByPath]

Tasks == DOMAIN tpc

\* the inbound requests
RawQueries == {<<"q", "=", "1">>}

InHeader == [k \in {"Accept"} |-> <<"a1", "a2">>]

Requests ==
    [Path : Paths, RawQuery : RawQueries, Header : {InHeader}, Body : {<<"payload">>},
     BodyErr : BOOLEAN]

IdleRequest == [Path |-> EmptyStr, RawQuery |-> EmptyStr, Header |-> EmptyMap, Body |-> <<>>,
                BodyErr |-> FALSE]

\* the state after NewConductor(cfg), before any request
InitWith(cfg) ==
    /\ config = NoConfig
    /\ services = cfg
    /\ routesByExact = NewConductor(cfg).routesByExact
    /\ routesByPrefix = NewConductor(cfg).routesByPrefix
    /\ routesByPath = NewConductor(cfg).routesByPath
    /\ pc = "idle"
    /\ r = IdleRequest
    /\ matches = <<>>
    /\ ctx = "none"
    /\ requestBody = <<>>
    /\ resultChan = <<>>
    /\ arrived = <<>>
    /\ chanClosed = FALSE
    /\ wg = 0
    /\ tpc = <<>>
    /\ result = <<>>
    /\ outReq = <<>>
    /\ closer = "none"
    /\ primaryResult = NilResult
    /\ anyResult = NilResult
    /\ resultToUse = NilResult
    /\ w = NewWriter
    /\ lk = [g \in Callers |-> NoLookup]
    /\ metrics = <<>>
    /\ mu = 0
    /\ mpc = [g \in Callers |-> "idle"]
    /\ margs = [g \in Callers |-> NoArgs]
    /\ mreg = [g \in Callers |-> 0]
    /\ made = NoneMade
    /\ skipped = FALSE
    /\ got = NothingGot
    /\ mh = NoScrape

Init == \E cfg \in Configs : InitWith(cfg)

\* the deferred cancel(): a context already expired stays expired
cancel(c) == IF c = "active" THEN "canceled" ELSE c

\* faulty variant: the `return` after handleNoServiceFound is missing
ServeHTTP_NoEarlyReturn(req) ==
    /\ pc \in {"idle", "done"}
    /\ \A i \in Tasks : tpc[i] = "exit"
    /\ closer # "wait"
    /\ r' = req
    /\ \E m \in findMatchingServices(RT, req.Path) :
          /\ matches' = m
          /\ w' = IF Len(m) = 0 THEN httpError(NewWriter, NoServiceMsg, 404) ELSE NewWriter
    /\ pc' = "readBody"
    /\ ctx' = "active"
    /\ requestBody' = <<>>
    /\ resultChan' = <<>>
    /\ arrived' = <<>>
    /\ chanClosed' = FALSE
    /\ wg' = 0
    /\ tpc' = <<>>
    /\ result' = <<>>
    /\ outReq' = <<>>
    /\ closer' = "none"
    /\ primaryResult' = NilResult
    /\ anyResult' = NilResult
    /\ resultToUse' = NilResult
    /\ UNCHANGED <<routeVars, metricsVars, lk>>

\* faulty variant: a matched request goes to the fan-out at once, the body
\* is not read first
ServeHTTP_DispatchFirst(req) ==
    /\ pc \in {"idle", "done"}
    /\ \A i \in Tasks : tpc[i] = "exit"
    /\ closer # "wait"
    /\ r' = req
    /\ \E m \in findMatchingServices(RT, req.Path) :
          /\ matches' = m
          /\ IF Len(m) = 0
             THEN /\ w' = httpError(NewWriter, NoServiceMsg, 404)
                  /\ pc' = "done"
                  /\ ctx' = "none"
             ELSE /\ w' = NewWriter
                  /\ pc' = "fanOut"
                  /\ ctx' = "active"
    /\ requestBody' = <<>>
    /\ resultChan' = <<>>
    /\ arrived' = <<>>
    /\ chanClosed' = FALSE
    /\ wg' = 0
    /\ tpc' = <<>>
    /\ result' = <<>>
    /\ outReq' = <<>>
    /\ closer' = "none"
    /\ primaryResult' = NilResult
    /\ anyResult' = NilResult
    /\ resultToUse' = NilResult
    /\ UNCHANGED <<routeVars, metricsVars, lk>>

\* the HTTP server calls ServeHTTP (one request's goroutines at a time):
\* lines 100-119, route lookup, 404 or context creation
ServeHTTP(req) ==
    /\ pc \in {"idle", "done"}
    /\ \A i \in Tasks : tpc[i] = "exit"
    /\ closer # "wait"
    /\ r' = req
    /\ \E m \in findMatchingServices(RT, req.Path) :
          /\ matches' = m
          /\ IF Len(m) = 0
             THEN /\ w' = httpError(NewWriter, NoServiceMsg, 404)
                  /\ pc' = "done"
                  /\ ctx' = "none"
             ELSE /\ w' = NewWriter
                  /\ pc' = "readBody"
                  /\ ctx' = "active"
    /\ requestBody' = <<>>
    /\ resultChan' = <<>>
    /\ arrived' = <<>>
    /\ chanClosed' = FALSE
    /\ wg' = 0
    /\ tpc' = <<>>
    /\ result' = <<>>
    /\ outReq' = <<>>
    /\ closer' = "none"
    /\ primaryResult' = NilResult
    /\ anyResult' = NilResult
    /\ resultToUse' = NilResult
    /\ UNCHANGED <<routeVars, metricsVars, lk>>

\* faulty variant: the `return` after the 500 is missing
ReadBody_NoReturn ==
    /\ pc = "readBody"
    /\ IF r.BodyErr
       THEN /\ w' = httpError(w, BodyReadMsg, 500)
            /\ UNCHANGED requestBody
       ELSE /\ requestBody' = r.Body
            /\ UNCHANGED w
    /\ pc' = "fanOut"
    /\ UNCHANGED <<routeVars, metricsVars, lk, r, matches, ctx, resultChan, arrived, chanClosed, wg, tpc,
                   result, outReq, closer, primaryResult, anyResult, resultToUse>>

\* faulty variant: the error of readRequestBody is dropped, the fan-out goes
\* ahead with a nil body
ReadBody_IgnoreErr ==
    /\ pc = "readBody"
    /\ requestBody' = IF r.BodyErr THEN <<>> ELSE r.Body
    /\ pc' = "fanOut"
    /\ UNCHANGED <<routeVars, metricsVars, lk, r, matches, ctx, resultChan, arrived, chanClosed, wg, tpc,
                   result, outReq, closer, primaryResult, anyResult, resultToUse, w>>

\* lines 121-130: readRequestBody, 500 on error
ReadBody ==
    /\ pc = "readBody"
    /\ IF r.BodyErr
       THEN /\ w' = httpError(w, BodyReadMsg, 500)
            /\ pc' = "done"
            /\ ctx' = cancel(ctx)
            /\ UNCHANGED requestBody
       ELSE /\ requestBody' = r.Body
            /\ pc' = "fanOut"
            /\ UNCHANGED <<w, ctx>>
    /\ UNCHANGED <<routeVars, metricsVars, lk, r, matches, resultChan, arrived, chanClosed, wg, tpc, result, outReq,
                   closer, primaryResult, anyResult, resultToUse>>

\* fanOutRequests: the channel, one goroutine per service, the closer
FanOut ==
    /\ pc = "fanOut"
    /\ resultChan' = <<>>
    /\ arrived' = <<>>
    /\ chanClosed' = FALSE
    /\ wg' = Len(matches)
    /\ tpc' = [i \in 1..Len(matches) |-> "call"]
    /\ result' = [i \in 1..Len(matches) |-> NilResult]
    /\ outReq' = [i \in 1..Len(matches) |-> NoRequest]
    /\ closer' = "wait"
    /\ pc' = "recv"
    /\ UNCHANGED <<routeVars, metricsVars, lk, r, matches, ctx, requestBody, primaryResult, anyResult,
                   resultToUse, w>>

\* the deadline of context.WithTimeout passes
Deadline ==
    /\ ctx = "active"
    /\ ctx' = "expired"
    /\ UNCHANGED <<routeVars, metricsVars, lk, pc, r, matches, requestBody, resultChan, arrived, chanClosed, wg, tpc,
                   result, outReq, closer, primaryResult, anyResult, resultToUse, w>>

\* faulty variant: a task whose request failed cancels the shared context
makeServiceRequest_CancelOnError(i, reply) ==
    /\ i \in Tasks
    /\ tpc[i] = "call"
    /\ outReq' = [outReq EXCEPT ![i] = outboundRequest(services[matches[i]], r, requestBody)]
    /\ result' = [result EXCEPT ![i] = sendRequest(matches[i], services[matches[i]], reply)]
    /\ tpc' = [tpc EXCEPT ![i] = "send"]
    /\ ctx' = IF result'[i].err # "nil" THEN cancel(ctx) ELSE ctx
    /\ UNCHANGED <<routeVars, metricsVars, lk, pc, r, matches, requestBody, resultChan, arrived, chanClosed, wg,
                   closer, primaryResult, anyResult, resultToUse, w>>

\* faulty variant: each task reads the inbound body stream itself: the first
\* one to build its request gets the bytes, the others an empty stream
makeServiceRequest_StreamsInbound(i, reply) ==
    /\ i \in Tasks
    /\ tpc[i] = "call"
    /\ outReq' = [outReq EXCEPT ![i] =
                    outboundRequest(services[matches[i]], r,
                        IF \A j \in Tasks : tpc[j] = "call" THEN requestBody ELSE <<>>)]
    /\ result' = [result EXCEPT ![i] = sendRequest(matches[i], services[matches[i]], reply)]
    /\ tpc' = [tpc EXCEPT ![i] = "send"]
    /\ UNCHANGED <<routeVars, metricsVars, lk, pc, r, matches, ctx, requestBody, resultChan, arrived, chanClosed, wg,
                   closer, primaryResult, anyResult, resultToUse, w>>

\* makeServiceRequest of task i returns, client.Do having returned `reply`
makeServiceRequest(i, reply) ==
    /\ i \in Tasks
    /\ tpc[i] = "call"
    /\ outReq' = [outReq EXCEPT ![i] = outboundRequest(services[matches[i]], r, requestBody)]
    /\ result' = [result EXCEPT ![i] = sendRequest(matches[i], services[matches[i]], reply)]
    /\ tpc' = [tpc EXCEPT ![i] = "send"]
    /\ UNCHANGED <<routeVars, metricsVars, lk, pc, r, matches, ctx, requestBody, resultChan, arrived, chanClosed, wg,
                   closer, primaryResult, anyResult, resultToUse, w>>

\* faulty variant: the exchange goes on after the context is done
TaskReply_IgnoresContext(i) ==
    \E reply \in BackendReplies : makeServiceRequest(i, reply)

\* the backend answers (or the transport fails) while the context is live
TaskReply(i) ==
    /\ ctx = "active"
    /\ \E reply \in BackendReplies : makeServiceRequest(i, reply)

\* the context is done: client.Do returns the context's error
TaskCtxDone(i) ==
    /\ ctx \in {"expired", "canceled"}
    /\ makeServiceRequest(i, ContextReply)

\* faulty variant: the channel is made with room for one result only
TaskSend_CapacityOne(i) ==
    /\ i \in Tasks
    /\ tpc[i] = "send"
    /\ Len(resultChan) < 1
    /\ IF chanClosed
       THEN /\ tpc' = [tpc EXCEPT ![i] = "panic"]
            /\ UNCHANGED <<resultChan, arrived>>
       ELSE /\ tpc' = [tpc EXCEPT ![i] = "done"]
            /\ resultChan' = Append(resultChan, result[i])
            /\ arrived' = Append(arrived, result[i])
    /\ UNCHANGED <<routeVars, metricsVars, lk, pc, r, matches, ctx, requestBody, chanClosed, wg, result,
                   outReq, closer, primaryResult, anyResult, resultToUse, w>>

\* resultChan <- result
TaskSend(i) ==
    /\ i \in Tasks
    /\ tpc[i] = "send"
    /\ Len(resultChan) < Len(matches)
    /\ IF chanClosed
       THEN /\ tpc' = [tpc EXCEPT ![i] = "panic"]
            /\ UNCHANGED <<resultChan, arrived>>
       ELSE /\ tpc' = [tpc EXCEPT ![i] = "done"]
            /\ resultChan' = Append(resultChan, result[i])
            /\ arrived' = Append(arrived, result[i])
    /\ UNCHANGED <<routeVars, metricsVars, lk, pc, r, matches, ctx, requestBody, chanClosed, wg, result,
                   outReq, closer, primaryResult, anyResult, resultToUse, w>>

\* the deferred wg.Done()
TaskDone(i) ==
    /\ i \in Tasks
    /\ tpc[i] = "done"
    /\ wg' = wg - 1
    /\ tpc' = [tpc EXCEPT ![i] = "exit"]
    /\ UNCHANGED <<routeVars, metricsVars, lk, pc, r, matches, ctx, requestBody, resultChan, arrived, chanClosed,
                   result, outReq, closer, primaryResult, anyResult, resultToUse, w>>

\* faulty variant: the closing goroutine returns without close(resultChan)
Close_NoClose ==
    /\ closer = "wait"
    /\ wg = 0
    /\ closer' = "exit"
    /\ UNCHANGED <<routeVars, metricsVars, lk, pc, r, matches, ctx, requestBody, resultChan, arrived,
                   chanClosed, wg, tpc, result, outReq, primaryResult, anyResult,
                   resultToUse, w>>

\* faulty variant: the closing goroutine closes without wg.Wait()
Close_NoWait ==
    /\ closer = "wait"
    /\ chanClosed' = TRUE
    /\ closer' = "exit"
    /\ UNCHANGED <<routeVars, metricsVars, lk, pc, r, matches, ctx, requestBody, resultChan, arrived, wg, tpc, result,
                   outReq, primaryResult, anyResult, resultToUse, w>>

\* wg.Wait(); close(resultChan)
Close ==
    /\ closer = "wait"
    /\ wg = 0
    /\ chanClosed' = TRUE
    /\ closer' = "exit"
    /\ UNCHANGED <<routeVars, metricsVars, lk, pc, r, matches, ctx, requestBody, resultChan, arrived, wg, tpc, result,
                   outReq, primaryResult, anyResult, resultToUse, w>>

\* faulty variant: every success replaces anyResult (the last one wins)
loopBody_LastSuccess(any, primary, res, isPrimary) ==
    IF res.err # "nil"
    THEN [anyResult |-> any, primaryResult |-> primary, break |-> FALSE]
    ELSE [anyResult |-> res,
          primaryResult |-> IF isPrimary THEN res ELSE primary,
          break |-> isPrimary]

\* faulty variant: the check of result.err is missing
loopBody_NoErrCheck(any, primary, res, isPrimary) ==
    [anyResult |-> IF any = NilResult THEN res ELSE any,
     primaryResult |-> IF isPrimary THEN res ELSE primary,
     break |-> isPrimary]

\* faulty variant: the loop breaks on the first success, primary or not
loopBody_BreakOnSuccess(any, primary, res, isPrimary) ==
    IF res.err # "nil"
    THEN [anyResult |-> any, primaryResult |-> primary, break |-> FALSE]
    ELSE [anyResult |-> IF any = NilResult THEN res ELSE any,
          primaryResult |-> IF isPrimary THEN res ELSE primary,
          break |-> TRUE]

\* faulty variant: the `break` after a primary's success is missing, the loop
\* reads on until the channel is closed
loopBody_NoBreak(any, primary, res, isPrimary) ==
    IF res.err # "nil"
    THEN [anyResult |-> any, primaryResult |-> primary, break |-> FALSE]
    ELSE [anyResult |-> IF any = NilResult THEN res ELSE any,
          primaryResult |-> IF isPrimary THEN res ELSE primary,
          break |-> FALSE]

\* faulty variant: a result counts as failed only if it has no response
loopBody_ErrOnlyWithoutResp(any, primary, res, isPrimary) ==
    IF res.err # "nil" /\ ~res.hasResp
    THEN [anyResult |-> any, primaryResult |-> primary, break |-> FALSE]
    ELSE [anyResult |-> IF any = NilResult THEN res ELSE any,
          primaryResult |-> IF isPrimary THEN res ELSE primary,
          break |-> isPrimary]

\* faulty variant: the loop ends at the first result of a primary service,
\* failed or not
loopBody_BreakOnAnyPrimary(any, primary, res, isPrimary) ==
    IF res.err # "nil"
    THEN [anyResult |-> any, primaryResult |-> primary, break |-> isPrimary]
    ELSE [anyResult |-> IF any = NilResult THEN res ELSE any,
          primaryResult |-> IF isPrimary THEN res ELSE primary,
          break |-> isPrimary]

\* processResults, the body of `for result := range resultChan` for one
\* received result: the locals after it, and whether the loop breaks
loopBody(any, primary, res, isPrimary) ==
    IF res.err # "nil"
    THEN [anyResult |-> any, primaryResult |-> primary, break |-> FALSE]
    ELSE [anyResult |-> IF any = NilResult THEN res ELSE any,
          primaryResult |-> IF isPrimary THEN res ELSE primary,
          break |-> isPrimary]

\* processResults, one iteration of the loop: a buffered result is received,
\* or the channel is closed and drained and the loop ends
Recv ==
    /\ pc = "recv"
    /\ IF resultChan # <<>>
       THEN LET res == Head(resultChan)
                after == loopBody(anyResult, primaryResult, res, services[res.service].Primary)
            IN  /\ resultChan' = Tail(resultChan)
                /\ anyResult' = after.anyResult
                /\ primaryResult' = after.primaryResult
                /\ pc' = IF after.break THEN "select" ELSE "recv"
       ELSE /\ chanClosed
            /\ pc' = "select"
            /\ UNCHANGED <<resultChan, anyResult, primaryResult>>
    /\ UNCHANGED <<routeVars, metricsVars, lk, r, matches, ctx, requestBody, arrived, chanClosed, wg, tpc,
                   result, outReq, closer, resultToUse, w>>

\* faulty variant: the first success is preferred to the primary's
selectResult_AnyFirst(primary, any) ==
    IF any # NilResult THEN any
    ELSE IF primary # NilResult THEN primary
    ELSE NilResult

\* processResults lines 200-222: primary, else any, else nil
selectResult(primary, any) ==
    IF primary # NilResult THEN primary
    ELSE IF any # NilResult THEN any
    ELSE NilResult

\* faulty variant: ServeHTTP returns without the deferred cancel
Respond_NoCancel ==
    /\ pc = "select"
    /\ resultToUse' = selectResult(primaryResult, anyResult)
    /\ w' = IF resultToUse' = NilResult
            THEN httpError(w, AllFailedMsg, 502)
            ELSE writeResponse(w, resultToUse')
    /\ pc' = "done"
    /\ UNCHANGED <<routeVars, metricsVars, lk, r, matches, ctx, requestBody, resultChan, arrived, chanClosed, wg, tpc,
                   result, outReq, closer, primaryResult, anyResult>>

\* ServeHTTP lines 136-147: 502 or writeResponse, then the deferred cancel
Respond ==
    /\ pc = "select"
    /\ resultToUse' = selectResult(primaryResult, anyResult)
    /\ w' = IF resultToUse' = NilResult
            THEN httpError(w, AllFailedMsg, 502)
            ELSE writeResponse(w, resultToUse')
    /\ ctx' = cancel(ctx)
    /\ pc' = "done"
    /\ UNCHANGED <<routeVars, metricsVars, lk, r, matches, requestBody, resultChan, arrived, chanClosed, wg, tpc,
                   result, outReq, closer, primaryResult, anyResult>>

Next ==
    \/ \E req \in Requests : ServeHTTP(req)
    \/ ReadBody
    \/ FanOut
    \/ Deadline
    \/ \E i \in Tasks : TaskReply(i)
    \/ \E i \in Tasks : TaskCtxDone(i)
    \/ \E i \in Tasks : TaskSend(i)
    \/ \E i \in Tasks : TaskDone(i)
    \/ Close
    \/ Recv
    \/ Respond

Spec == Init /\ [][Next]_vars

\* FairSpec: every goroutine that can take a step is scheduled, and the timer
\* of the context fires.  Nothing obliges a backend to answer (TaskReply) or
\* a client to send a request (ServeHTTP).
TaskIds == 1..MaxServices

Fairness ==
    /\ WF_vars(ReadBody)
    /\ WF_vars(FanOut)
    /\ WF_vars(Deadline)
    /\ WF_vars(Close)
    /\ WF_vars(Recv)
    /\ WF_vars(Respond)
    /\ \A i \in TaskIds :
          WF_vars(TaskCtxDone(i)) /\ WF_vars(TaskSend(i)) /\ WF_vars(TaskDone(i))

FairSpec == Init /\ [][Next]_vars /\ Fairness

(***************************************************************************)
(* RouteSpec: findMatchingServices applied to every path, for every        *)
(* configuration                                                           *)
(***************************************************************************)
RouteInit ==
    \E n \in 1..MaxRouteServices : \E c \in [1..n -> RouteChoices] : InitWith(RouteConfig(c))

\* line 104: services := c.findMatchingServices(r)
FindMatching(path) ==
    /\ r' = [r EXCEPT !.Path = path]
    /\ matches' \in findMatchingServices(RT, path)
    /\ UNCHANGED <<routeVars, metricsVars, lk, pc, ctx, requestBody, resultChan, arrived, chanClosed, wg, tpc, result,
                   outReq, closer, primaryResult, anyResult, resultToUse, w>>

RouteNext == \E path \in RoutePaths : FindMatching(path)

RouteSpec == RouteInit /\ [][RouteNext]_vars

(***************************************************************************)
(* LoadSpec: config.Load applied to every file of up to MaxLoadServices    *)
(* services with any combination of primary flags                          *)
(***************************************************************************)
\* the services yaml.Unmarshal gives for a file with these primary flags
ParsedServices(flags) ==
    [i \in DOMAIN flags |-> MkService(NameOf(i), HostOf(i), EmptyStr, P_a, EmptyStr, flags[i])]

LoadInit ==
    /\ \E n \in 0..MaxLoadServices : \E flags \in [1..n -> BOOLEAN] :
          config = [pc |-> "parsed", Parsed |-> ParsedServices(flags),
                    Services |-> ParsedServices(flags)]
    /\ services = <<>>
    /\ routesByExact = EmptyMap /\ routesByPrefix = EmptyMap /\ routesByPath = EmptyMap
    /\ pc = "idle" /\ r = IdleRequest /\ matches = <<>> /\ ctx = "none"
    /\ requestBody = <<>> /\ resultChan = <<>> /\ arrived = <<>> /\ chanClosed = FALSE
    /\ wg = 0 /\ tpc = <<>> /\ result = <<>> /\ outReq = <<>> /\ closer = "none"
    /\ primaryResult = NilResult /\ anyResult = NilResult /\ resultToUse = NilResult
    /\ w = NewWriter
    /\ lk = [g \in Callers |-> NoLookup]
    /\ metrics = <<>> /\ mu = 0
    /\ mpc = [g \in Callers |-> "idle"]
    /\ margs = [g \in Callers |-> NoArgs]
    /\ mreg = [g \in Callers |-> 0]
    /\ made = NoneMade /\ skipped = FALSE /\ got = NothingGot /\ mh = NoScrape

\* Load, lines 68-82: the defaulting of the primary, and the return
LoadReturn ==
    /\ config.pc = "parsed"
    /\ config' = [config EXCEPT !.pc = "returned", !.Services = configLoad(config.Services)]
    /\ UNCHANGED <<services, routesByExact, routesByPrefix, routesByPath, pc, r, matches, ctx,
                   requestBody, resultChan, arrived, chanClosed, wg, tpc, result, outReq, closer,
                   primaryResult, anyResult, resultToUse, w, lk, metricsVars>>

LoadNext == LoadReturn

LoadSpec == LoadInit /\ [][LoadNext]_vars

(***************************************************************************)
(* LookupSpec: findMatchingServices called from MaxCallers concurrent      *)
(* ServeHTTP goroutines on one conductor, one map access or loop iteration *)
(* per step, each call with its own locals                                 *)
(***************************************************************************)
\* two nested prefixes and two nested fallback patterns
NestedConfig ==
    << MkService("s1", "h1", EmptyStr, P_a, EmptyStr, TRUE),
       MkService("s2", "h2", EmptyStr, P_ab, EmptyStr, FALSE),
       MkService("s3", "h3", EmptyStr, EmptyStr, Slash, FALSE),
       MkService("s4", "h4", EmptyStr, EmptyStr, P_c, FALSE) >>

\* two prefixes of equal length and one nested in the first
SiblingConfig ==
    << MkService("s1", "h1", EmptyStr, P_a, EmptyStr, TRUE),
       MkService("s2", "h2", EmptyStr, P_c, EmptyStr, FALSE),
       MkService("s3", "h3", EmptyStr, P_ab, EmptyStr, FALSE) >>

LookupConfigs == {TestConfig, NestedConfig, SiblingConfig}

LookupPaths == {P_abc, P_c, P_exact}

LookupInit == \E cfg \in LookupConfigs : InitWith(cfg)

\* line 104: a ServeHTTP goroutine calls findMatchingServices (lines 396-397)
LookupCall(g, path) ==
    /\ lk[g].pc \in {"idle", "return"}
    /\ lk' = [lk EXCEPT ![g] = [NoLookup EXCEPT !.pc = "exact", !.path = path]]
    /\ UNCHANGED <<routeVars, metricsVars, pc, r, matches, ctx, requestBody, resultChan, arrived,
                   chanClosed, wg, tpc, result, outReq, closer, primaryResult, anyResult,
                   resultToUse, w>>

\* lines 400-402: the exact index; else the prefix loop begins, `range`
\* visiting the keys of routesByPrefix in some order
LookupExact(g) ==
    /\ lk[g].pc = "exact"
    /\ IF lk[g].path \in DOMAIN routesByExact
       THEN lk' = [lk EXCEPT ![g].pc = "return", ![g].matches = routesByExact[lk[g].path]]
       ELSE \E order \in RangeOrders(DOMAIN routesByPrefix) :
               lk' = [lk EXCEPT ![g].pc = "prefix", ![g].todo = order]
    /\ UNCHANGED <<routeVars, metricsVars, pc, r, matches, ctx, requestBody, resultChan, arrived,
                   chanClosed, wg, tpc, result, outReq, closer, primaryResult, anyResult,
                   resultToUse, w>>

\* faulty variant: the first qualifying prefix visited wins, the lengths are
\* not compared
LookupPrefix_FirstQualifying(g) ==
    /\ lk[g].pc = "prefix"
    /\ IF lk[g].todo # <<>>
       THEN LET prefix == Head(lk[g].todo)
                better == HasPrefix(lk[g].path, prefix) /\ lk[g].bestPrefix = EmptyStr
            IN  lk' = [lk EXCEPT ![g].todo = Tail(@),
                                 ![g].bestPrefix = IF better THEN prefix ELSE @,
                                 ![g].matches = IF better THEN routesByPrefix[prefix] ELSE @]
       ELSE IF Len(lk[g].matches) > 0
       THEN lk' = [lk EXCEPT ![g].pc = "return"]
       ELSE \E order \in RangeOrders(DOMAIN routesByPath) :
               lk' = [lk EXCEPT ![g].pc = "path", ![g].todo = order]
    /\ UNCHANGED <<routeVars, metricsVars, pc, r, matches, ctx, requestBody, resultChan, arrived,
                   chanClosed, wg, tpc, result, outReq, closer, primaryResult, anyResult,
                   resultToUse, w>>

\* lines 405-415: one iteration of the prefix loop, or its end: return of the
\* matches, or the fallback loop begins
LookupPrefix(g) ==
    /\ lk[g].pc = "prefix"
    /\ IF lk[g].todo # <<>>
       THEN LET prefix == Head(lk[g].todo)
                better == HasPrefix(lk[g].path, prefix) /\ Len(prefix) > Len(lk[g].bestPrefix)
            IN  lk' = [lk EXCEPT ![g].todo = Tail(@),
                                 ![g].bestPrefix = IF better THEN prefix ELSE @,
                                 ![g].matches = IF better THEN routesByPrefix[prefix] ELSE @]
       ELSE IF Len(lk[g].matches) > 0
       THEN lk' = [lk EXCEPT ![g].pc = "return"]
       ELSE \E order \in RangeOrders(DOMAIN routesByPath) :
               lk' = [lk EXCEPT ![g].pc = "path", ![g].todo = order]
    /\ UNCHANGED <<routeVars, metricsVars, pc, r, matches, ctx, requestBody, resultChan, arrived,
                   chanClosed, wg, tpc, result, outReq, closer, primaryResult, anyResult,
                   resultToUse, w>>

\* faulty variant: at the end of the fallback loop the concatenated matches
\* are stored in the exact index under the path
LookupPath_Memoize(g) ==
    /\ lk[g].pc = "path"
    /\ IF lk[g].todo # <<>>
       THEN LET basePath == Head(lk[g].todo) IN
            /\ lk' = [lk EXCEPT ![g].todo = Tail(@),
                                ![g].matches = IF HasPrefix(lk[g].path, basePath)
                                               THEN @ \o routesByPath[basePath] ELSE @]
            /\ UNCHANGED routeVars
       ELSE /\ lk' = [lk EXCEPT ![g].pc = "return"]
            /\ routesByExact' =
                  IF Len(lk[g].matches) > 0
                  THEN [k \in DOMAIN routesByExact \cup {lk[g].path} |->
                          IF k = lk[g].path THEN lk[g].matches ELSE routesByExact[k]]
                  ELSE routesByExact
            /\ UNCHANGED <<config, services, routesByPrefix, routesByPath>>
    /\ UNCHANGED <<metricsVars, pc, r, matches, ctx, requestBody, resultChan, arrived,
                   chanClosed, wg, tpc, result, outReq, closer, primaryResult, anyResult,
                   resultToUse, w>>

\* lines 418-424: one iteration of the fallback loop (append to the call's
\* own matches, nil at the start), or its end and the return
LookupPath(g) ==
    /\ lk[g].pc = "path"
    /\ IF lk[g].todo # <<>>
       THEN LET basePath == Head(lk[g].todo) IN
            lk' = [lk EXCEPT ![g].todo = Tail(@),
                             ![g].matches = IF HasPrefix(lk[g].path, basePath)
                                            THEN @ \o routesByPath[basePath] ELSE @]
       ELSE lk' = [lk EXCEPT ![g].pc = "return"]
    /\ UNCHANGED <<routeVars, metricsVars, pc, r, matches, ctx, requestBody, resultChan, arrived,
                   chanClosed, wg, tpc, result, outReq, closer, primaryResult, anyResult,
                   resultToUse, w>>

LookupNext ==
    \E g \in Callers :
        \/ \E path \in LookupPaths : LookupCall(g, path)
        \/ LookupExact(g)
        \/ LookupPrefix(g)
        \/ LookupPath(g)

LookupSpec == LookupInit /\ [][LookupNext]_vars

(***************************************************************************)
(* BuildSpec: makeServiceRequest's construction of the outbound request    *)
(* (createTargetURL, copyAndAugmentHeaders) applied to one service and one *)
(* request, as TestCreateTargetURL calls it: for every combination of the  *)
(* service's matchers, base URL path and headers, and every inbound path,  *)
(* query and header set                                                    *)
(***************************************************************************)
P_v1 == <<"/", "v", "1">>
P_star == <<"*">>

\* the headers a service may configure
ServiceHeaders ==
    { EmptyMap,
      [k \in {"X-Proxy-Service"} |-> "s1"],
      [k \in {"X-Proxy-Service", "X-Env"} |-> IF k = "X-Env" THEN "prod" ELSE "s1"] }

BuildChoices ==
    [PathExact : {EmptyStr, P_ab}, PathPrefix : {EmptyStr, P_a}, Path : {EmptyStr, P_a},
     BasePath : {EmptyStr, P_v1}, Headers : ServiceHeaders]

BuildConfig(c) ==
    << [MkService(NameOf(1), HostOf(1), c.PathExact, c.PathPrefix, c.Path, TRUE)
           EXCEPT !.URL = MkURL(HostOf(1), c.BasePath), !.Headers = c.Headers] >>

\* the inbound header sets: none, one name with two values, and a name that
\* a service configures as well
InHeaders ==
    { EmptyMap,
      InHeader,
      [k \in {"Accept", "X-Proxy-Service"} |->
          IF k = "Accept" THEN <<"a1", "a2">> ELSE <<"c1", "c2">>] }

BuildPaths == {EmptyStr, P_a, P_ab, P_abc, P_ax, P_c, P_star}

BuildRequests ==
    [Path : BuildPaths, RawQuery : RawQueries \cup {EmptyStr}, Header : InHeaders,
     Body : {<<"payload">>}, BodyErr : {FALSE}]

BuildInit == \E c \in BuildChoices : InitWith(BuildConfig(c))

\* makeServiceRequest lines 285-302 for service i and the request req
BuildRequest(i, req) ==
    /\ i \in 1..Len(services)
    /\ r' = req
    /\ matches' = <<i>>
    /\ requestBody' = req.Body
    /\ outReq' = <<outboundRequest(services[i], req, req.Body)>>
    /\ UNCHANGED <<routeVars, metricsVars, lk, pc, ctx, resultChan, arrived, chanClosed, wg, tpc, result,
                   closer, primaryResult, anyResult, resultToUse, w>>

BuildNext == \E i \in 1..Len(services) : \E req \in BuildRequests : BuildRequest(i, req)

BuildSpec == BuildInit /\ [][BuildNext]_vars

(***************************************************************************)
(* MetricsSpec: the collector of a conductor, called from MaxCallers       *)
(* goroutines.  An update `x++` or `x += d` is a load and a store; what    *)
(* makes it atomic is the mutex.                                           *)
(***************************************************************************)
GetMetrics == metrics

\* the calls begun on the collector: those that returned and those under way
Started == made.calls + Cardinality({g \in Callers : mpc[g] # "idle"})

\* WithMetrics: c.metrics = NewMetricsCollector().  It is applied while no
\* call is under way (SetupMetricsEndpoints and RegisterMetricsEndpoint call
\* it before the server starts; c.metrics is not synchronised).
WithMetrics ==
    /\ \A g \in Callers : mpc[g] = "idle"
    /\ metrics' = <<NewMetricsCollector>>
    /\ made' = NoneMade
    /\ UNCHANGED <<handlerVars, mh, mu, mpc, margs, mreg, skipped, got>>

\* faulty variant: RecordRequest does not take the mutex
RecordRequest_NoLock(g, duration, isError) ==
    /\ metrics # <<>>
    /\ mpc[g] = "idle"
    /\ Started < MaxCalls
    /\ margs' = [margs EXCEPT ![g] = [duration |-> duration, isError |-> isError]]
    /\ mpc' = [mpc EXCEPT ![g] = "ldCount"]
    /\ UNCHANGED <<handlerVars, mh, metrics, mu, mreg, made, skipped, got>>

\* RecordRequest is called and m.mu.Lock() returns
RecordRequest(g, duration, isError) ==
    /\ metrics # <<>>
    /\ mpc[g] = "idle"
    /\ Started < MaxCalls
    /\ mu = 0
    /\ mu' = g
    /\ margs' = [margs EXCEPT ![g] = [duration |-> duration, isError |-> isError]]
    /\ mpc' = [mpc EXCEPT ![g] = "ldCount"]
    /\ UNCHANGED <<handlerVars, mh, metrics, mreg, made, skipped, got>>

\* faulty variant: a conductor without a collector gets one on the first
\* call, which is recorded in it
RecordMetrics_LazyInit(g, duration, hasError) ==
    /\ mpc[g] = "idle"
    /\ IF metrics = <<>>
       THEN /\ \A h \in Callers : mpc[h] = "idle"
            /\ Started < MaxCalls
            /\ metrics' = <<NewMetricsCollector>>
            /\ mu' = g
            /\ margs' = [margs EXCEPT ![g] = [duration |-> duration, isError |-> hasError]]
            /\ mpc' = [mpc EXCEPT ![g] = "ldCount"]
            /\ UNCHANGED <<handlerVars, mh, mreg, made, skipped, got>>
       ELSE RecordRequest(g, duration, hasError)

\* RecordMetrics(start, hasError): nothing without a collector, else
\* RecordRequest(time.Since(start), hasError)
RecordMetrics(g, duration, hasError) ==
    /\ mpc[g] = "idle"
    /\ IF metrics = <<>>
       THEN /\ skipped' = TRUE
            /\ UNCHANGED <<handlerVars, mh, metrics, mu, mpc, margs, mreg, made, got>>
       ELSE RecordRequest(g, duration, hasError)

\* one load of an update of RecordRequest: `at` is where the caller is,
\* `field` the counter read, `to` where it goes on
Load(g, at, field, to) ==
    /\ mpc[g] = at
    /\ mreg' = [mreg EXCEPT ![g] = metrics[1][field]]
    /\ mpc' = [mpc EXCEPT ![g] = to]
    /\ UNCHANGED <<handlerVars, mh, metrics, mu, margs, made, skipped, got>>

\* one store of an update of RecordRequest
Store(g, at, field, delta, to) ==
    /\ mpc[g] = at
    /\ metrics' = <<[metrics[1] EXCEPT ![field] = mreg[g] + delta]>>
    /\ mpc' = [mpc EXCEPT ![g] = to]
    /\ UNCHANGED <<handlerVars, mh, mu, margs, mreg, made, skipped, got>>

\* m.requestCount++
LoadCount(g) == Load(g, "ldCount", "requestCount", "stCount")

StoreCount(g) == Store(g, "stCount", "requestCount", 1, "ldDuration")

\* m.requestDuration += duration
LoadDuration(g) == Load(g, "ldDuration", "requestDuration", "stDuration")

StoreDuration(g) ==
    Store(g, "stDuration", "requestDuration", margs[g].duration,
          IF margs[g].isError THEN "ldError" ELSE "Unlock")

\* if isError { m.errorCount++ }
LoadError(g) == Load(g, "ldError", "errorCount", "stError")

StoreError(g) == Store(g, "stError", "errorCount", 1, "Unlock")

\* the deferred m.mu.Unlock(); the call returns
Unlock(g) ==
    /\ mpc[g] = "Unlock"
    /\ mu' = 0
    /\ mpc' = [mpc EXCEPT ![g] = "idle"]
    /\ margs' = [margs EXCEPT ![g] = NoArgs]
    /\ mreg' = [mreg EXCEPT ![g] = 0]
    /\ made' = [calls |-> made.calls + 1,
                errors |-> made.errors + (IF margs[g].isError THEN 1 ELSE 0),
                total |-> made.total + margs[g].duration]
    /\ UNCHANGED <<handlerVars, mh, metrics, skipped, got>>

\* a getter: RLock (no writer holds the mutex), the read, RUnlock
Get(op) ==
    /\ metrics # <<>>
    /\ mu = 0
    /\ got' = [op |-> op, value |-> Getter(op, metrics[1]), at |-> made]
    /\ UNCHANGED <<handlerVars, mh, metrics, mu, mpc, margs, mreg, made, skipped>>

MetricsInit == InitWith(TestConfig)

MetricsNext ==
    \/ WithMetrics
    \/ \E g \in Callers : \E d \in Durations : \E e \in BOOLEAN : RecordRequest(g, d, e)
    \/ \E g \in Callers : \E d \in Durations : \E e \in BOOLEAN : RecordMetrics(g, d, e)
    \/ \E g \in Callers : LoadCount(g)
    \/ \E g \in Callers : StoreCount(g)
    \/ \E g \in Callers : LoadDuration(g)
    \/ \E g \in Callers : StoreDuration(g)
    \/ \E g \in Callers : LoadError(g)
    \/ \E g \in Callers : StoreError(g)
    \/ \E g \in Callers : Unlock(g)
    \/ \E op \in Getters : Get(op)

MetricsSpec == MetricsInit /\ [][MetricsNext]_vars

(***************************************************************************)
(* ScrapeSpec: the JSON metrics handler of a conductor, called while       *)
(* MaxCallers goroutines record requests.  Each getter the handler calls   *)
(* takes and releases the read lock on its own.                            *)
(***************************************************************************)
\* RegisterMetricsEndpoint: the collector is enabled if it is not, before
\* the handler is registered and the server starts
RegisterMetricsEndpoint ==
    /\ GetMetrics = <<>>
    /\ mh.pc = "idle"
    /\ \A g \in Callers : mpc[g] = "idle"
    /\ metrics' = <<NewMetricsCollector>>
    /\ UNCHANGED <<handlerVars, mh, mu, mpc, margs, mreg, made, skipped, got>>

\* the handler is called: 404 without a collector
MetricsHandler ==
    /\ mh.pc \in {"idle", "done"}
    /\ mh' = IF GetMetrics = <<>>
             THEN [NoScrape EXCEPT !.pc = "done", !.status = 404]
             ELSE [NoScrape EXCEPT !.pc = "reqCount"]
    /\ UNCHANGED <<handlerVars, metrics, mu, mpc, margs, mreg, made, skipped, got>>

\* reqCount := metrics.GetRequestCount()
ScrapeRequestCount ==
    /\ mh.pc = "reqCount"
    /\ mu = 0
    /\ mh' = [mh EXCEPT !.pc = "errCount", !.reqCount = GetRequestCount(metrics[1])]
    /\ UNCHANGED <<handlerVars, metrics, mu, mpc, margs, mreg, made, skipped, got>>

\* errCount := metrics.GetErrorCount()
ScrapeErrorCount ==
    /\ mh.pc = "errCount"
    /\ mu = 0
    /\ mh' = [mh EXCEPT !.pc = "avg", !.errCount = GetErrorCount(metrics[1])]
    /\ UNCHANGED <<handlerVars, metrics, mu, mpc, margs, mreg, made, skipped, got>>

\* avgDuration := metrics.GetAverageRequestDuration()
ScrapeAverage ==
    /\ mh.pc = "avg"
    /\ mu = 0
    /\ mh' = [mh EXCEPT !.pc = "last", !.avgDuration = GetAverageRequestDuration(metrics[1])]
    /\ UNCHANGED <<handlerVars, metrics, mu, mpc, margs, mreg, made, skipped, got>>

\* lastReq := metrics.GetLastRequestTime(), then the data are encoded into
\* the response; the first Write sends status 200
ScrapeRespond ==
    /\ mh.pc = "last"
    /\ mu = 0
    /\ mh' = [mh EXCEPT !.pc = "done", !.status = 200,
                        !.data = MetricsData(mh.reqCount, mh.errCount, mh.avgDuration)]
    /\ UNCHANGED <<handlerVars, metrics, mu, mpc, margs, mreg, made, skipped, got>>

ScrapeInit == InitWith(TestConfig)

ScrapeNext ==
    \/ RegisterMetricsEndpoint
    \/ MetricsHandler
    \/ ScrapeRequestCount
    \/ ScrapeErrorCount
    \/ ScrapeAverage
    \/ ScrapeRespond
    \/ \E g \in Callers : \E d \in Durations : \E e \in BOOLEAN : RecordRequest(g, d, e)
    \/ \E g \in Callers : LoadCount(g)
    \/ \E g \in Callers : StoreCount(g)
    \/ \E g \in Callers : LoadDuration(g)
    \/ \E g \in Callers : StoreDuration(g)
    \/ \E g \in Callers : LoadError(g)
    \/ \E g \in Callers : StoreError(g)
    \/ \E g \in Callers : Unlock(g)

ScrapeSpec == ScrapeInit /\ [][ScrapeNext]_vars

(***************************************************************************)
(* Properties                                                              *)
(***************************************************************************)
\* the index a service is registered in, and its pattern there
Kind(svc) ==
    IF svc.PathExact # EmptyStr THEN "exact"
    ELSE IF svc.PathPrefix # EmptyStr THEN "prefix"
    ELSE IF svc.Path # EmptyStr THEN "path"
    ELSE "none"

Pattern(svc) ==
    IF svc.PathExact # EmptyStr THEN svc.PathExact
    ELSE IF svc.PathPrefix # EmptyStr THEN svc.PathPrefix
    ELSE svc.Path

\* the services configured under a pattern of a kind, in configuration order
RegisteredUnder(kind, pat) ==
    SelectSeq([i \in 1..Len(services) |-> i],
              LAMBDA i : Kind(services[i]) = kind /\ Pattern(services[i]) = pat)

\* the registered patterns of a kind that are a prefix of the path
Qualifying(kind, path) ==
    {Pattern(services[i]) : i \in {j \in 1..Len(services) :
        Kind(services[j]) = kind /\ HasPrefix(path, Pattern(services[j]))}}

ExactRegistered(path) == \E i \in 1..Len(services) : services[i].PathExact = path

\* `matches` is the result of a lookup of r.Path
LookedUp == r.Path # EmptyStr

RECURSIVE ConcatGroups(_, _)
ConcatGroups(kind, order) ==
    IF order = <<>> THEN <<>>
    ELSE RegisteredUnder(kind, Head(order)) \o ConcatGroups(kind, Tail(order))

\* C7: a path equal to a registered exact pattern is matched to exactly the
\* services configured under that exact pattern, in configuration order, and
\* to no service of a prefix or fallback group, whatever else qualifies.
C7_ExactShortCircuits ==
    (LookedUp /\ ExactRegistered(r.Path)) =>
        /\ matches = RegisteredUnder("exact", r.Path)
        /\ \A k \in DOMAIN matches : Kind(services[matches[k]]) = "exact"

C7_Witness ==
    /\ LookedUp
    /\ ExactRegistered(r.Path)
    /\ Qualifying("prefix", r.Path) # {}
    /\ Qualifying("path", r.Path) # {}
    /\ Len(matches) >= 1

\* C8: with no exact match and some registered prefix qualifying, the match
\* is exactly the group of the longest qualifying prefix: no service of a
\* shorter qualifying prefix, none of a fallback group.
C8_LongestPrefixWins ==
    (LookedUp /\ ~ExactRegistered(r.Path) /\ Qualifying("prefix", r.Path) # {}) =>
        LET Q == Qualifying("prefix", r.Path)
            longest == CHOOSE p \in Q : \A q \in Q : Len(q) <= Len(p)
        IN  /\ matches = RegisteredUnder("prefix", longest)
            /\ \A k \in DOMAIN matches :
                  /\ Kind(services[matches[k]]) = "prefix"
                  /\ Pattern(services[matches[k]]) = longest

C8_Witness ==
    /\ LookedUp
    /\ ~ExactRegistered(r.Path)
    /\ Cardinality(Qualifying("prefix", r.Path)) = 2
    /\ Qualifying("path", r.Path) # {}
    /\ Len(matches) = 1

\* C9: with no exact and no prefix match, the match is the concatenation of
\* the groups of all qualifying fallback patterns (in some order of the
\* groups), each group in configuration order.
C9_FallbackAccumulates ==
    (LookedUp /\ ~ExactRegistered(r.Path) /\ Qualifying("prefix", r.Path) = {}) =>
        \E order \in RangeOrders(Qualifying("path", r.Path)) :
            matches = ConcatGroups("path", order)

C9_Witness ==
    /\ LookedUp
    /\ ~ExactRegistered(r.Path)
    /\ Qualifying("prefix", r.Path) = {}
    /\ Cardinality(Qualifying("path", r.Path)) = 2
    /\ Len(matches) = 3

\* ---- the request handler ----
Produced(i) == i \in Tasks /\ tpc[i] # "call"

Succeeded(i) == Produced(i) /\ result[i].err = "nil"

Failed(i) == Produced(i) /\ result[i].err # "nil"

IsPrimaryTask(i) == services[matches[i]].Primary

IsSuccess(res) == res.err = "nil"

IsPrimarySuccess(res) == res.err = "nil" /\ services[res.service].Primary

ViaError == w.calls = <<"http.Error">>

ViaRelay == w.calls = <<"Header.Add", "WriteHeader", "Write">>

\* the response is the conductor's own error response
WroteError(code, msg) == ViaError /\ w.Code = code /\ w.Body = <<msg, "\n">>

\* the response is the given outcome: its status, its headers, its body
Relayed(res) ==
    /\ ViaRelay
    /\ w.Code = res.resp.StatusCode
    /\ w.Header = res.resp.Header
    /\ w.Body = res.body

\* C1 as stated: whenever a primary service has a successful outcome, the
\* response is that outcome.
C1_EveryPrimarySuccessIsTheResponse ==
    pc = "done" =>
        \A i \in Tasks : (IsPrimaryTask(i) /\ Succeeded(i)) => Relayed(result[i])

\* C1 amended: whenever some primary service has a successful outcome, the
\* response is the first successful primary outcome in arrival order,
\* whatever the non-primary services did; it is the outcome of the primary
\* that succeeded when only one did.
C1_FirstPrimarySuccessIsTheResponse ==
    pc = "done" =>
        /\ (\E i \in Tasks : IsPrimaryTask(i) /\ Succeeded(i)) =>
              LET ps == SelectSeq(arrived, IsPrimarySuccess)
              IN  ps # <<>> /\ resultToUse = Head(ps) /\ Relayed(Head(ps))
        /\ \A i \in Tasks :
              (/\ IsPrimaryTask(i) /\ Succeeded(i)
               /\ \A j \in Tasks \ {i} : ~(IsPrimaryTask(j) /\ Succeeded(j)))
              => Relayed(result[i])

C1_Witness ==
    /\ pc = "done"
    /\ Len(arrived) = 2
    /\ IsSuccess(arrived[1]) /\ ~services[arrived[1].service].Primary
    /\ IsPrimarySuccess(arrived[2])
    /\ Relayed(arrived[2])
    /\ w.Body # arrived[1].body

\* C2: when no primary service has a successful outcome and some non-primary
\* service has one, the response is the first successful outcome in arrival
\* order, which is a non-primary one.
C2_FallbackIsFirstSuccess ==
    pc = "done" =>
        ((/\ \A i \in Tasks : IsPrimaryTask(i) => ~Succeeded(i)
          /\ \E i \in Tasks : ~IsPrimaryTask(i) /\ Succeeded(i))
         => LET ok == SelectSeq(arrived, IsSuccess)
            IN  /\ ok # <<>>
                /\ ~services[Head(ok).service].Primary
                /\ resultToUse = Head(ok)
                /\ Relayed(Head(ok)))

C2_Witness ==
    /\ pc = "done"
    /\ Len(arrived) = 2
    /\ IsSuccess(arrived[1]) /\ IsSuccess(arrived[2])
    /\ arrived[1].service = matches[2]
    /\ ~services[arrived[1].service].Primary /\ ~services[arrived[2].service].Primary
    /\ Relayed(arrived[1])

\* C3: when every matched service has a failure outcome the response is 502
\* with the text "All services failed"; and the conductor's own 502 is written
\* only then, never while a matched service has a successful outcome.
C3_AllFailedIs502 ==
    /\ (pc = "done" /\ Tasks # {} /\ \A i \in Tasks : Failed(i))
          => WroteError(502, AllFailedMsg)
    /\ (ViaError /\ w.Code = 502)
          => (Tasks # {} /\ \A i \in Tasks : Failed(i))

C3_Witness ==
    /\ pc = "done"
    /\ Cardinality(Tasks) = 2
    /\ \A i \in Tasks : Failed(i)
    /\ \E i \in Tasks : result[i].hasResp
    /\ WroteError(502, AllFailedMsg)

NoPatternMatches(path) ==
    /\ ~ExactRegistered(path)
    /\ Qualifying("prefix", path) = {}
    /\ Qualifying("path", path) = {}

\* C4: a request whose path matches no pattern gets an empty match and the
\* 404 "No service found for request"; its body is not read, no context is
\* created and no task is started.
C4_NoRouteIs404 ==
    (pc # "idle" /\ NoPatternMatches(r.Path)) =>
        /\ matches = <<>>
        /\ pc = "done"
        /\ WroteError(404, NoServiceMsg)
        /\ requestBody = <<>>
        /\ ctx = "none"
        /\ Tasks = {} /\ outReq = <<>> /\ closer = "none" /\ arrived = <<>>

C4_Witness ==
    /\ pc = "done"
    /\ Len(services) = 3
    /\ NoPatternMatches(r.Path)
    /\ r.BodyErr
    /\ WroteError(404, NoServiceMsg)

\* C5: a finished request has written exactly one response (none is written
\* before); it is the chosen outcome with its own status iff some matched
\* service succeeded, the 404 iff no route matched, the 500 iff a route
\* matched and the body read failed, the 502 iff a route matched, the body
\* was read and every matched service failed.
C5_OneResponseFourStatuses ==
    /\ pc # "done" => w.calls = <<>>
    /\ pc = "done" =>
          /\ ViaError \/ ViaRelay
          /\ ViaRelay <=> (\E i \in Tasks : Succeeded(i))
          /\ ViaRelay => /\ \E i \in Tasks : Succeeded(i) /\ resultToUse = result[i]
                         /\ w.Code = resultToUse.resp.StatusCode
          /\ ViaError => w.Code \in {404, 500, 502}
          /\ (ViaError /\ w.Code = 404) <=> (matches = <<>>)
          /\ (ViaError /\ w.Code = 500) <=> (matches # <<>> /\ r.BodyErr)
          /\ (ViaError /\ w.Code = 502) <=>
                (/\ matches # <<>> /\ ~r.BodyErr /\ requestBody = r.Body
                 /\ Tasks # {} /\ \A i \in Tasks : Failed(i))

C5_Witness ==
    /\ pc = "done"
    /\ ViaRelay
    /\ w.Code = 502
    /\ \E i \in Tasks : Failed(i)

\* C6: under fairness every request that was accepted gets its response and
\* the handler returns, the channel is closed and every task ends, also when
\* backends never answer (then through the deadline of the context).
Busy == pc \in {"readBody", "fanOut", "recv", "select"} \/ closer = "wait"

Quiescent ==
    /\ pc = "done"
    /\ w.calls # <<>>
    /\ closer # "wait"
    /\ closer = "exit" => chanClosed
    /\ \A i \in Tasks : tpc[i] = "exit"

OnlyTo(k, host, path) ==
    /\ matches = <<k>>
    /\ Tasks \subseteq {1}
    /\ \A i \in Tasks : Produced(i) =>
          /\ outReq[i].URL[3] = host
          /\ OutboundPath(outReq[i].URL) = path

C10_TestScenario ==
    services = TestConfig =>
        /\ r.Path = P_exact => OnlyTo(1, "primary.example.com", P_exact)
        /\ r.Path = P_prefix_x => OnlyTo(2, "prefix.example.com", <<"/", "x">>)
        /\ r.Path = P_path_y => OnlyTo(3, "path.example.com", P_path_y)
        /\ r.Path = P_nomatch =>
              /\ matches = <<>> /\ Tasks = {} /\ outReq = <<>>
              /\ pc = "done" /\ w.Code = 404

C10_Witness ==
    /\ services = TestConfig
    /\ r.Path = P_prefix_x
    /\ Tasks = {1}
    /\ tpc[1] = "exit"
    /\ OutboundPath(outReq[1].URL) = <<"/", "x">>
    /\ outReq[1].URL[3] = "prefix.example.com"

\* ---- the outbound request ----
\* a request has been built for services[matches[1]]
Built == Len(outReq) = 1 /\ outReq[1] # NoRequest /\ Len(matches) = 1

BuiltSvc == services[matches[1]]

\* C11: the outbound header set has exactly the inbound names and the
\* service's configured names; a configured name carries the single
\* configured value (and no inbound value of that name), every other name
\* carries all its inbound values in order.
C11_HeadersOverlaid ==
    Built =>
        LET out == outReq[1].Header
            cfg == BuiltSvc.Headers
        IN  /\ DOMAIN out = DOMAIN r.Header \cup DOMAIN cfg
            /\ \A k \in DOMAIN cfg : out[k] = <<cfg[k]>>
            /\ \A k \in DOMAIN r.Header \ DOMAIN cfg : out[k] = r.Header[k]

C11_Witness ==
    /\ Built
    /\ "X-Proxy-Service" \in DOMAIN r.Header
    /\ Len(r.Header["X-Proxy-Service"]) = 2
    /\ DOMAIN BuiltSvc.Headers = {"X-Proxy-Service", "X-Env"}
    /\ outReq[1].Header["X-Proxy-Service"] = <<"s1">>
    /\ outReq[1].Header["Accept"] = <<"a1", "a2">>

\* ---- outcomes and statuses ----
Is2xx(st) == st >= 200 /\ st < 300

C13_BodyReadErrorIs500 ==
    (matches # <<>> /\ r.BodyErr) =>
        /\ pc \in {"readBody", "done"}
        /\ Tasks = {} /\ outReq = <<>> /\ result = <<>>
        /\ arrived = <<>> /\ resultChan = <<>> /\ wg = 0 /\ closer = "none"
        /\ requestBody = <<>>
        /\ pc = "readBody" => w = NewWriter
        /\ pc = "done" => (WroteError(500, BodyReadMsg) /\ ctx # "active")

C13_Witness ==
    /\ pc = "done"
    /\ r.BodyErr
    /\ Len(matches) = 2
    /\ WroteError(500, BodyReadMsg)
    /\ Tasks = {}

\* ---- waiting for the tasks ----
\* C14 as stated: on a dispatched request no response is written while some
\* task has not produced its outcome and the deadline has not expired.
C14_WaitsForAllOrDeadline ==
    (pc = "done" /\ Tasks # {}) =>
        ((\A i \in Tasks : Produced(i)) \/ ctx = "expired")

\* every task has sent its outcome and ended, and the channel is closed and
\* drained
StreamComplete ==
    /\ chanClosed
    /\ resultChan = <<>>
    /\ Len(arrived) = Len(matches)
    /\ \A i \in Tasks : tpc[i] = "exit"

\* C20: processResults ends without a primary outcome only when the channel
\* is closed and drained, every task having sent its outcome; a non-primary
\* outcome in the response is the first success of the complete stream; and
\* while any task is outstanding, a response that relays an outcome relays
\* a primary's.
C20_FallbackOnlyAfterClose ==
    /\ (pc \in {"select", "done"} /\ Tasks # {} /\ primaryResult = NilResult)
          => StreamComplete
    /\ (pc = "done" /\ ViaRelay /\ ~services[resultToUse.service].Primary)
          => /\ StreamComplete
             /\ resultToUse = Head(SelectSeq(arrived, IsSuccess))
    /\ (pc = "done" /\ ViaRelay /\ \E i \in Tasks : tpc[i] # "exit")
          => services[resultToUse.service].Primary

C20_Witness ==
    /\ pc = "done"
    /\ Len(arrived) = 2
    /\ IsSuccess(arrived[1]) /\ ~services[arrived[1].service].Primary
    /\ services[arrived[2].service].Primary /\ ~IsSuccess(arrived[2])
    /\ arrived[2].err = "context"
    /\ Relayed(arrived[1])
    /\ chanClosed

\* ---- the target URL ----
\* the service built for is what findMatchingServices returns for the path
Routed == matches \in findMatchingServices(RT, r.Path)

EnsureSlash(p) == IF HasPrefix(p, Slash) THEN p ELSE Slash \o p

\* "?" + raw query when there is one
QueryPart(q) == IF q # EmptyStr THEN <<"?">> \o q ELSE <<>>

\* an outbound URL without its first three elements (scheme, "://", host)
AfterHost(url) == SubSeq(url, 4, Len(url))

\* C15 as stated: for a service that the path is routed to, the outbound path
\* is the remainder after the prefix (leading "/" ensured) exactly when the
\* service is registered in the prefix index and the path starts with its
\* prefix; for a service registered in the exact or the fallback index it is
\* the inbound path, whatever other matcher the service configures.
C15_StripOnlyForPrefixKind ==
    (Built /\ Routed) =>
        LET svc == BuiltSvc
            out == OutboundPath(outReq[1].URL)
        IN  IF Kind(svc) = "prefix" /\ HasPrefix(r.Path, svc.PathPrefix)
            THEN out = EnsureSlash(TrimPrefix(r.Path, svc.PathPrefix))
            ELSE out = r.Path

\* the path createTargetURL forwards: the inbound path, or what is left of
\* it after the service's configured prefix
ForwardedPaths(svc, path) ==
    {path} \cup (IF svc.PathPrefix # EmptyStr /\ HasPrefix(path, svc.PathPrefix)
                 THEN {EnsureSlash(TrimPrefix(path, svc.PathPrefix))} ELSE {})

\* a path as it stands in a URL after the host: a non-empty path begins
\* with "/"
InURL(p) == IF p = EmptyStr THEN p ELSE EnsureSlash(p)

Collector == metrics[1]

\* C17: the error count never exceeds the request count; whenever a getter
\* can read (no RecordRequest holds the mutex) the request count is the
\* number of calls that returned and the error count the number of those
\* with isError, so nothing is lost, also when no call is under way; every
\* value GetRequestCount or GetErrorCount returned is that number at the
\* moment of the read; a collector without calls reads 0 and 0.
C17_CountsEveryCall ==
    /\ metrics # <<>> =>
          /\ Collector.errorCount <= Collector.requestCount
          /\ mu = 0 =>
                /\ GetRequestCount(Collector) = made.calls
                /\ GetErrorCount(Collector) = made.errors
          /\ (\A g \in Callers : mpc[g] = "idle") =>
                /\ Collector.requestCount = made.calls
                /\ Collector.errorCount = made.errors
    /\ got.op = "GetRequestCount" => got.value = got.at.calls
    /\ got.op = "GetErrorCount" => got.value = got.at.errors

C17_Witness ==
    /\ metrics # <<>>
    /\ made.calls = 2 /\ made.errors = 1
    /\ \E g \in Callers : mpc[g] = "stCount"
    /\ got.op = "GetErrorCount" /\ got.value = 1 /\ got.at.calls = 2

\* C18: what GetAverageRequestDuration returned is 0 when no call had been
\* recorded, and otherwise the integer quotient q of the sum of the recorded
\* durations by their number n: q * n <= sum < (q + 1) * n.
C18_AverageIsQuotient ==
    got.op = "GetAverageRequestDuration" =>
        IF got.at.calls = 0 THEN got.value = 0
        ELSE /\ got.value * got.at.calls <= got.at.total
             /\ got.at.total < (got.value + 1) * got.at.calls

C18_Witness ==
    /\ got.op = "GetAverageRequestDuration"
    /\ got.at.calls = 2
    /\ got.at.total = 100 * Millisecond + 200 * Millisecond
    /\ got.value = 150 * Millisecond

\* C19: a conductor has no collector until WithMetrics installs a new one:
\* while it has none nothing has been recorded or read, and every step
\* (RecordMetrics calls among them) leaves the collector state as it is,
\* save the step that installs a zeroed collector; with a collector, a call
\* about to return has raised the request count by exactly 1 and the error
\* count by exactly 1 if hasError, by 0 otherwise.
C19_MetricsOnlyAfterWithMetrics ==
    /\ [](GetMetrics = <<>> =>
            /\ mu = 0 /\ made = NoneMade /\ got = NothingGot
            /\ \A g \in Callers : mpc[g] = "idle")
    /\ [][GetMetrics = <<>> =>
            \/ UNCHANGED <<metrics, mu, mpc, margs, mreg, made, got>>
            \/ /\ metrics' = <<NewMetricsCollector>>
               /\ UNCHANGED <<mu, mpc, margs, mreg, made, skipped, got>>]_vars
    /\ [](\A g \in Callers : mpc[g] = "Unlock" =>
            /\ Collector.requestCount = made.calls + 1
            /\ Collector.errorCount = made.errors + (IF margs[g].isError THEN 1 ELSE 0))

C19_Witness ==
    /\ skipped
    /\ metrics # <<>>
    /\ mu = 0
    /\ made.calls = 2 /\ made.errors = 1
    /\ Collector.requestCount = 2 /\ Collector.errorCount = 1

\* ---- the early stop ----
\* a step of the request under way (not the start of the next request)
SameRequest == Tasks # {} /\ DOMAIN tpc' = DOMAIN tpc

\* processResults takes the next outcome off the channel
Receives == pc = "recv" /\ resultChan # <<>> /\ resultChan' = Tail(resultChan)

C22_ClosedOnceAfterAllSent ==
    /\ [](chanClosed => /\ closer = "exit"
                        /\ wg = 0
                        /\ Len(arrived) = Len(matches)
                        /\ \A i \in Tasks : tpc[i] = "exit")
    /\ [](\A i \in Tasks : tpc[i] # "panic")
    /\ [][(chanClosed' # chanClosed /\ SameRequest)
            => (~chanClosed /\ closer = "wait" /\ closer' = "exit")]_vars
    /\ [][(closer = "exit" /\ SameRequest) => (closer' = "exit" /\ chanClosed')]_vars

C22_Witness ==
    /\ chanClosed
    /\ pc = "done"
    /\ primaryResult # NilResult
    /\ Len(arrived) = 2
    /\ arrived[1] = primaryResult
    /\ resultChan = <<arrived[2]>>

\* ---- no blocked send ----
Unfinished == (\E i \in Tasks : tpc[i] # "exit") \/ closer = "wait"

AllEnded == (\A i \in Tasks : tpc[i] = "exit") /\ closer = "exit" /\ chanClosed

\* C23: a task that has its outcome can send it at once: the channel is open
\* and holds fewer results than it has room for, whether processResults is
\* still reading or has returned; and under fairness every task and the
\* closing goroutine end.
C23_SendNeverBlocks ==
    /\ [](\A i \in Tasks : tpc[i] = "send" =>
             /\ Len(resultChan) < Len(matches)
             /\ ~chanClosed
             /\ ENABLED TaskSend(i))
    /\ (Unfinished ~> AllEnded)

C23_Witness ==
    /\ pc = "done"
    /\ primaryResult # NilResult
    /\ \E i \in Tasks : tpc[i] = "send" /\ result[i].err = "context"
    /\ Len(matches) = 2

\* ---- one outcome per service ----
\* the tasks that have sent their outcome
Sent == {i \in Tasks : tpc[i] \in {"done", "exit"}}

\* one task per matched service, and one outcome on the channel per task
\* that has sent: the outcomes sent so far are those of the tasks in Sent,
\* each once
OneTaskPerService == pc \in {"recv", "select"} => Tasks = 1..Len(matches)

OneOutcomePerTask ==
    /\ Len(arrived) = Cardinality(Sent)
    /\ \A i \in Sent : \E k \in 1..Len(arrived) : arrived[k] = result[i]
    /\ \A k \in 1..Len(arrived) : \E i \in Sent : arrived[k] = result[i]

\* the outcomes processResults has taken off the channel
Consumed == Len(arrived) - Len(resultChan)

\* C24 as stated: one task per matched service, one outcome sent per task,
\* and every outcome consumed by the selection: once the tasks have ended
\* and the response is written, no outcome is left in the channel.
C24_EveryOutcomeConsumedOnce ==
    /\ OneTaskPerService
    /\ OneOutcomePerTask
    /\ (pc = "done" /\ Tasks # {} /\ AllEnded) => Consumed = Len(matches)

\* ---- failures are contained ----
\* task i returns from makeServiceRequest with a failure outcome
ProducesFailure(i) ==
    /\ SameRequest
    /\ tpc[i] = "call" /\ tpc'[i] = "send"
    /\ result'[i].err # "nil"

\* C25: the step in which a task gets a failure outcome touches neither the
\* shared context, nor the handler, nor any other task; a sibling still in
\* its backend call under a live context can get its own reply whatever the
\* others have produced; a request that ends in the 502 has only failed
\* services, and a request with a successful service ends in a relayed
\* response.
C25_FailureIsContained ==
    /\ [][\A i \in Tasks : ProducesFailure(i) =>
             /\ ctx' = ctx /\ pc' = pc /\ w' = w
             /\ chanClosed' = chanClosed /\ resultChan' = resultChan
             /\ \A j \in Tasks \ {i} : tpc'[j] = tpc[j] /\ result'[j] = result[j]]_vars
    /\ [](\A j \in Tasks : (tpc[j] = "call" /\ ctx = "active") => ENABLED TaskReply(j))
    /\ []((pc = "done" /\ WroteError(502, AllFailedMsg))
            => (Tasks # {} /\ \A i \in Tasks : Failed(i)))
    /\ []((pc = "done" /\ \E i \in Tasks : Succeeded(i)) => ViaRelay)

C25_Witness ==
    /\ pc = "done"
    /\ Len(arrived) = 2
    /\ arrived[1].err = "transport"
    /\ services[arrived[1].service].Primary
    /\ IsSuccess(arrived[2])
    /\ Relayed(arrived[2])

\* ---- tasks run to completion ----
\* an outcome in the channel can be received whatever the tasks are doing
ReceiveNeverHeldUp == (pc = "recv" /\ resultChan # <<>>) => ENABLED Recv

\* C26 as stated: a slow or hung service does not hold up the receive of the
\* outcomes already sent, and a task's backend call ends by its own reply
\* (response or transport failure) or by the expiry of the deadline: an
\* outcome with the context's error exists only under an expired context.
C26_TasksRunToCompletion ==
    /\ ReceiveNeverHeldUp
    /\ \A i \in Tasks : (Produced(i) /\ result[i].err = "context") => ctx = "expired"

\* ---- the deadline ----
\* task i returns from makeServiceRequest with its outcome
ProducesOutcome(i) == SameRequest /\ tpc[i] = "call" /\ tpc'[i] = "send"

\* an outcome produced under the expired context is a failure
FailsAfterDeadline ==
    [][\A i \in Tasks : (ctx = "expired" /\ ProducesOutcome(i)) =>
          (result'[i].err = "context" /\ ~result'[i].hasResp)]_vars

\* C27 as stated: outcomes produced after the expiry are failures, and the
\* dispatch stage has ended when the deadline expires: the channel of a
\* dispatched request is closed in every state with an expired context.
C27_ClosedByTheDeadline ==
    /\ FailsAfterDeadline
    /\ []((ctx = "expired" /\ closer # "none") => chanClosed)

\* C27, amended: outcomes produced after the expiry are failures, and once
\* the deadline has expired on a dispatched request every outstanding task
\* produces its outcome and ends and the channel is closed, no backend
\* having to answer.
C27_ClosedAfterTheDeadline ==
    /\ FailsAfterDeadline
    /\ ((ctx = "expired" /\ closer = "wait")
          ~> (ctx = "expired" /\ chanClosed /\ \A i \in Tasks : tpc[i] = "exit"))

C27_Witness ==
    /\ ctx = "expired"
    /\ chanClosed
    /\ Len(arrived) = 2
    /\ IsSuccess(arrived[1]) /\ ~services[arrived[1].service].Primary
    /\ arrived[2].err = "context"
    /\ pc = "recv"

\* ---- failures are never selected ----
\* C28: anyResult, primaryResult and the outcome processResults returns are
\* nil or an outcome without error that was sent on the channel; the receive
\* of a failure outcome, a primary's and one with a response whose body
\* could not be read included, leaves both locals as they are and the loop
\* goes on; a relayed response relays an outcome without error.
C28_FailureNeverSelected ==
    /\ [](\A x \in {anyResult, primaryResult, resultToUse} :
             x # NilResult => /\ x.err = "nil"
                              /\ \E k \in 1..Len(arrived) : arrived[k] = x)
    /\ [][(Receives /\ Head(resultChan).err # "nil")
            => (anyResult' = anyResult /\ primaryResult' = primaryResult /\ pc' = "recv")]_vars
    /\ []((pc = "done" /\ ViaRelay) => (resultToUse # NilResult /\ resultToUse.hasResp))

C28_Witness ==
    /\ pc = "done"
    /\ Len(arrived) = 2
    /\ arrived[1].err = "read" /\ arrived[1].hasResp
    /\ services[arrived[1].service].Primary
    /\ resultToUse = arrived[2]
    /\ Relayed(arrived[2])

\* ---- the stages of a request ----
\* the stage of the request life cycle the handler is in
Stage ==
    CASE pc = "idle" -> "Start"
      [] pc = "readBody" -> "Matched"
      [] pc = "fanOut" -> "BodyCaptured"
      [] pc = "recv" -> "Dispatched"
      [] pc = "select" -> IF selectResult(primaryResult, anyResult) = NilResult
                          THEN "AllFailed" ELSE "Selected"
      [] pc = "done" -> IF ViaRelay THEN "ResponseWritten"
                        ELSE IF w.Code = 404 THEN "NoRoute"
                        ELSE IF w.Code = 500 THEN "BodyReadError"
                        ELSE "AllFailed"

StageSteps ==
    {<<"Start", "Matched">>, <<"Start", "NoRoute">>,
     <<"Matched", "BodyCaptured">>, <<"Matched", "BodyReadError">>,
     <<"BodyCaptured", "Dispatched">>,
     <<"Dispatched", "Selected">>, <<"Dispatched", "AllFailed">>,
     <<"Selected", "ResponseWritten">>}

FinalStages == {"NoRoute", "BodyReadError", "AllFailed", "ResponseWritten"}

\* the server hands the next request to the handler
NextRequest ==
    /\ pc \in {"idle", "done"}
    /\ tpc' = <<>> /\ requestBody' = <<>> /\ closer' = "none"
    /\ w' \in {NewWriter, httpError(NewWriter, NoServiceMsg, 404)}

\* C29: every step keeps the stage or moves it one step along
\* Start, Matched | NoRoute, BodyCaptured | BodyReadError, Dispatched,
\* Selected | AllFailed, ResponseWritten; NoRoute, BodyReadError, AllFailed
\* and ResponseWritten are left only by the start of the next request.  No
\* body is captured before the match, no task exists before the body is
\* captured, and the selection has a dispatch behind it.
C29_StagesInOrder ==
    /\ [][\/ Stage' = Stage
          \/ <<Stage, Stage'>> \in StageSteps
          \/ (Stage \in FinalStages /\ NextRequest /\ Stage' \in {"Matched", "NoRoute"})]_vars
    /\ [](Stage \in {"Start", "Matched", "NoRoute", "BodyReadError"}
            => (requestBody = <<>> /\ Tasks = {} /\ closer = "none"))
    /\ [](Stage \in {"Matched", "BodyCaptured"} => (matches # <<>> /\ Tasks = {}))
    /\ [](Tasks # {} => (matches # <<>> /\ ~r.BodyErr /\ requestBody = r.Body))
    /\ [](Stage \in {"Dispatched", "Selected", "ResponseWritten"}
            => (closer # "none" /\ Tasks = 1..Len(matches)))
    /\ []((Stage = "AllFailed") => (chanClosed /\ \A i \in Tasks : Failed(i)))

C29_Witness ==
    /\ Stage = "AllFailed"
    /\ pc = "done"
    /\ WroteError(502, AllFailedMsg)
    /\ Len(arrived) = 2
    /\ requestBody = <<"payload">>

\* ---- the order of the response ----
\* the positions of a call in the log of the writer
At(call) == {k \in 1..Len(w.calls) : w.calls[k] = call}

\* C30: a relayed response is made by the header additions, then one
\* WriteHeader, then the Write of the body: every addition comes before the
\* WriteHeader and every Write after it; the response carries every value
\* of every header name of the chosen outcome, in the outcome's order, its
\* status and its body.
C30_HeadersStatusBody ==
    (pc = "done" /\ resultToUse # NilResult) =>
        /\ Cardinality(At("WriteHeader")) = 1
        /\ At("Header.Add") # {} /\ At("Write") # {}
        /\ \A h \in At("Header.Add"), s \in At("WriteHeader") : h < s
        /\ \A b \in At("Write"), s \in At("WriteHeader") : s < b
        /\ At("http.Error") = {}
        /\ DOMAIN w.Header = DOMAIN resultToUse.resp.Header
        /\ \A k \in DOMAIN w.Header : w.Header[k] = resultToUse.resp.Header[k]
        /\ w.Code = resultToUse.resp.StatusCode
        /\ w.Body = resultToUse.body

C30_Witness ==
    /\ pc = "done"
    /\ resultToUse # NilResult
    /\ w.Code = 502
    /\ w.Header["X-From"] = <<services[resultToUse.service].Name, "v2">>
    /\ w.Body = BackendBody(services[resultToUse.service])
    /\ w.calls = <<"Header.Add", "WriteHeader", "Write">>
    /\ \A i \in Tasks : Succeeded(i)

\* ---- the three indices ----
\* the places (key, position) at which service i stands in an index
Places(idx, i) == {<<k, j>> \in UNION {{<<key, n>> : n \in DOMAIN idx[key]} : key \in DOMAIN idx} :
                      idx[k][j] = i}

IndexOf(kind) ==
    IF kind = "exact" THEN routesByExact
    ELSE IF kind = "prefix" THEN routesByPrefix
    ELSE routesByPath

\* service i stands once in the index of its kind, under its pattern, and
\* nowhere else
InItsIndexOnly(i) ==
    /\ \A kind \in {"exact", "prefix", "path"} :
          Cardinality(Places(IndexOf(kind), i)) = IF kind = Kind(services[i]) THEN 1 ELSE 0
    /\ \E j \in 1..Len(services) :
          <<Pattern(services[i]), j>> \in Places(IndexOf(Kind(services[i])), i)

\* every list of every index is in configuration order
ListsInConfigOrder ==
    \A kind \in {"exact", "prefix", "path"} : \A k \in DOMAIN IndexOf(kind) :
        \A a, b \in DOMAIN IndexOf(kind)[k] : a < b => IndexOf(kind)[k][a] < IndexOf(kind)[k][b]

\* C31, amended: a service with a matcher stands once, in the index of its
\* most specific matcher (exact, else prefix, else fallback) under that
\* pattern; a service without any matcher stands in no index; every list is
\* in configuration order.
C31_ServiceWithMatcherInOneIndex ==
    /\ \A i \in 1..Len(services) :
          IF Kind(services[i]) = "none"
          THEN \A kind \in {"exact", "prefix", "path"} : Places(IndexOf(kind), i) = {}
          ELSE InItsIndexOnly(i)
    /\ ListsInConfigOrder

C31_Witness ==
    /\ Len(services) = 3
    /\ services[1].PathExact = P_ab /\ services[1].PathPrefix = P_ab /\ services[1].Path = P_a
    /\ Kind(services[2]) = "none"
    /\ services[3].PathExact = P_ab
    /\ routesByExact[P_ab] = <<1, 3>>
    /\ routesByPrefix = EmptyMap /\ routesByPath = EmptyMap
    /\ r.Path = P_ab /\ matches = <<1, 3>>

\* C31 as stated: every configured service stands in exactly one index, the
\* one of its most specific matcher (exact, else prefix, else fallback),
\* and every list is in configuration order.
C31_EveryServiceInOneIndex ==
    /\ \A i \in 1..Len(services) :
          /\ Kind(services[i]) # "none"
          /\ InItsIndexOnly(i)
    /\ ListsInConfigOrder

\* ---- the route table is read-only ----
\* C32: no step of any findMatchingServices call, alone or interleaved with
\* the steps of other calls, changes the services or any of the three
\* indices: the table stays the one NewConductor built, lists and their
\* order included; and every call returns what the lookup of its path on
\* that table gives, fallback concatenations included.
C32_RouteTableNeverChanges ==
    /\ [][/\ services' = services
          /\ routesByExact' = routesByExact
          /\ routesByPrefix' = routesByPrefix
          /\ routesByPath' = routesByPath]_vars
    /\ [](RT = NewConductor(services))
    /\ [](\A g \in Callers : lk[g].pc = "return" =>
             lk[g].matches \in findMatchingServices(RT, lk[g].path))

C32_Witness ==
    /\ lk[1].pc = "return" /\ lk[1].path = P_c /\ Len(lk[1].matches) = 2
    /\ lk[2].pc = "path" /\ lk[2].path = P_c /\ Len(lk[2].matches) = 1
    /\ lk[1].matches[1] # lk[2].matches[1]
    /\ RT = NewConductor(NestedConfig)

\* ---- the shared body ----
\* C33: the buffered body is written by one step only, the read of the
\* inbound body before the fan-out (and cleared by the next request); while
\* tasks exist it is the inbound body and no step changes it; the outbound
\* request of every task that has built one carries exactly those bytes.
C33_BodyReadOnceAndShared ==
    /\ [][requestBody' # requestBody =>
            \/ (pc = "readBody" /\ pc' = "fanOut" /\ Tasks = {} /\ requestBody' = r.Body)
            \/ (NextRequest /\ requestBody' = <<>>)]_vars
    /\ [](Tasks # {} => requestBody = r.Body)
    /\ [](\A i \in Tasks : Produced(i) => outReq[i].Body = r.Body)
    /\ [](\A i \in Tasks : ~Produced(i) => outReq[i] = NoRequest)

C33_Witness ==
    /\ Tasks = {1, 2}
    /\ \A i \in Tasks : Produced(i)
    /\ outReq[1].Body = <<"payload">>
    /\ outReq[2].Body = <<"payload">>
    /\ outReq[1].URL # outReq[2].URL
    /\ requestBody = <<"payload">>

\* ---- the default primary ----
NoPrimary(svcs) == \A i \in 1..Len(svcs) : ~svcs[i].Primary

\* C34: the services Load returns are the parsed ones, but for the first,
\* which is made primary if and only if the file has a service and marks
\* none primary; no other flag and nothing else of any service differs; a
\* returned non-empty list has a primary.
C34_FirstIsDefaultPrimary ==
    config.pc = "returned" =>
        /\ Len(config.Services) = Len(config.Parsed)
        /\ \A i \in 1..Len(config.Parsed) :
              config.Services[i] =
                  IF i = 1 /\ NoPrimary(config.Parsed)
                  THEN [config.Parsed[1] EXCEPT !.Primary = TRUE]
                  ELSE config.Parsed[i]
        /\ Len(config.Services) > 0 => ~NoPrimary(config.Services)

C34_Witness ==
    /\ config.pc = "returned"
    /\ Len(config.Parsed) = 3
    /\ NoPrimary(config.Parsed)
    /\ config.Services[1].Primary
    /\ ~config.Services[2].Primary /\ ~config.Services[3].Primary

\* ---- several primaries ----
\* the outcomes processResults has received, in the order received
Seen == SubSeq(arrived, 1, Consumed)

\* C35: primaryResult is the first successful primary outcome among the
\* outcomes received, and nil while there is none; the receive of anything
\* else, a failed primary's outcome included, leaves the loop running; once
\* set, primaryResult is never replaced, whatever arrives later; and it is
\* what the response relays.
C35_FirstPrimarySuccessWins ==
    /\ []((Tasks # {} /\ pc \in {"recv", "select", "done"}) =>
            LET ps == SelectSeq(Seen, IsPrimarySuccess) IN
            /\ primaryResult = IF ps = <<>> THEN NilResult ELSE Head(ps)
            /\ Len(ps) <= 1)
    /\ [][(Receives /\ ~IsPrimarySuccess(Head(resultChan)))
            => (pc' = "recv" /\ primaryResult' = primaryResult)]_vars
    /\ [][(SameRequest /\ primaryResult # NilResult) => primaryResult' = primaryResult]_vars
    /\ []((pc = "done" /\ primaryResult # NilResult) => Relayed(primaryResult))

C35_Witness ==
    /\ pc = "done"
    /\ Len(arrived) = 2
    /\ IsPrimarySuccess(arrived[1]) /\ IsPrimarySuccess(arrived[2])
    /\ arrived[1].resp.StatusCode # arrived[2].resp.StatusCode
    /\ Relayed(arrived[1])
    /\ resultChan = <<arrived[2]>>

ByExactOrPrefix(g) ==
    /\ lk[g].pc = "return"
    /\ \/ lk[g].path \in DOMAIN routesByExact
       \/ \E p \in DOMAIN routesByPrefix : HasPrefix(lk[g].path, p)

\* C37: two calls for the same path that return under the exact or the
\* prefix rule return the same list, whatever orders their loops took; the
\* lookup of such a path has one possible result over all iteration orders;
\* and no two distinct registered prefixes of equal length are both
\* prefixes of one path.
C37_ExactAndPrefixOrderIndependent ==
    /\ \A g, h \in Callers :
          (ByExactOrPrefix(g) /\ ByExactOrPrefix(h) /\ lk[g].path = lk[h].path)
              => lk[g].matches = lk[h].matches
    /\ \A g \in Callers :
          ByExactOrPrefix(g) => findMatchingServices(RT, lk[g].path) = {lk[g].matches}
    /\ \A p, q \in DOMAIN routesByPrefix : \A path \in LookupPaths :
          (p # q /\ Len(p) = Len(q)) => ~(HasPrefix(path, p) /\ HasPrefix(path, q))

C37_Witness ==
    /\ RT = NewConductor(SiblingConfig)
    /\ ByExactOrPrefix(1) /\ ByExactOrPrefix(2)
    /\ lk[1].path = P_abc /\ lk[2].path = P_abc
    /\ lk[1].matches = <<3>>
    /\ lk[1].bestPrefix = P_ab /\ lk[2].bestPrefix = P_ab

\* ---- the metrics response ----
\* the handler has answered with the data
Scraped == mh.pc = "done" /\ mh.status = 200

\* C38: in every response of MetricsHandler, also with RecordRequest calls
\* under way, error_count <= request_count, success_count is their
\* difference and not negative, and error_rate lies between 0 and 1.
C38_ResponseFromOneState ==
    Scraped =>
        /\ mh.data.error_count <= mh.data.request_count
        /\ mh.data.success_count = mh.data.request_count - mh.data.error_count
        /\ mh.data.success_count >= 0
        /\ 0 <= mh.data.error_rate.num
        /\ mh.data.error_rate.num <= mh.data.error_rate.den

====
